---- MODULE Spec2Model ----
(***************************************************************************)
(* Model of app_runtime/schemas/scripts/validation.py: validate_app_config *)
(* (fence stripping, JSON parsing, root type detection, schema loading and *)
(* the recursive, type-dispatched walk) as a state machine.                *)
(*                                                                         *)
(* Python str values are TLA+ strings handled character by character       *)
(* (Len, SubSeq, \o): the input text, the breadcrumbs and the error        *)
(* messages are the strings the code builds.                               *)
(***************************************************************************)
EXTENDS Integers, Sequences, FiniteSets, TLC

(***************************************************************************)
(* Python str helpers                                                      *)
(***************************************************************************)
CharAt(s, i) == IF i >= 1 /\ i <= Len(s) THEN SubSeq(s, i, i) ELSE ""

StartsWithAt(s, i, p) ==
    /\ i >= 1
    /\ i + Len(p) - 1 <= Len(s)
    /\ SubSeq(s, i, i + Len(p) - 1) = p

StartsWith(s, p) == StartsWithAt(s, 1, p)

MinOf(xs) == CHOOSE m \in xs : \A k \in xs : m <= k
MaxOf(xs) == CHOOSE m \in xs : \A k \in xs : m >= k

\* the indices >= i at which p occurs in s
Occurrences(s, i, p) == { j \in i..(Len(s) - Len(p) + 1) : StartsWithAt(s, j, p) }

RECURSIVE StrReplaceFrom(_, _, _, _)
\* s[i:].replace(p, r) for a non-empty p: leftmost non-overlapping occurrences
StrReplaceFrom(s, i, p, r) ==
    IF Occurrences(s, i, p) = {} THEN SubSeq(s, i, Len(s))
    ELSE LET m == MinOf(Occurrences(s, i, p))
         IN  SubSeq(s, i, m - 1) \o r \o StrReplaceFrom(s, m + Len(p), p, r)

\* s.replace(p, r)
StrReplace(s, p, r) == StrReplaceFrom(s, 1, p, r)

StrRemoveAll(s, p) == StrReplace(s, p, "")


\* the first index >= i of s whose character is not in cs (Len(s) + 1 if none)
LStripSetIdx(s, i, cs) ==
    CHOOSE j \in i..(Len(s) + 1) :
        /\ j = Len(s) + 1 \/ CharAt(s, j) \notin cs
        /\ \A k \in i..(j - 1) : CharAt(s, k) \in cs

\* the last index <= i of s whose character is not in cs (0 if none)
RStripSetIdx(s, i, cs) ==
    CHOOSE j \in 0..i :
        /\ j = 0 \/ CharAt(s, j) \notin cs
        /\ \A k \in (j + 1)..i : CharAt(s, k) \in cs

\* s.strip(chars), s.lstrip(chars), s.rstrip(chars) for a set of characters
StrStripSet(s, cs)  == SubSeq(s, LStripSetIdx(s, 1, cs), RStripSetIdx(s, Len(s), cs))
StrLStripSet(s, cs) == SubSeq(s, LStripSetIdx(s, 1, cs), Len(s))
StrRStripSet(s, cs) == SubSeq(s, 1, RStripSetIdx(s, Len(s), cs))

WsChars == {" ", "\n", "\t", "\r"}

\* str.strip()
StrStrip(s) == StrStripSet(s, WsChars)

\* p in s
StrContains(s, p) == Occurrences(s, 1, p) # {}

(***************************************************************************)
(* JSON values as json.loads builds them: None, bool, int, str, list, dict *)
(* (a dict keeps its keys in document order)                               *)
(***************************************************************************)
PyNone      == [k |-> "none", s |-> "",  v |-> <<>>]
PyBool(b)   == [k |-> "bool", s |-> IF b THEN "True" ELSE "False", v |-> <<>>]
PyInt(txt)  == [k |-> "int",  s |-> txt, v |-> <<>>]
PyStr(txt)  == [k |-> "str",  s |-> txt, v |-> <<>>]
PyList(xs)  == [k |-> "list", s |-> "",  v |-> xs]
PyDict(es)  == [k |-> "dict", s |-> "",  v |-> es]
Entry(key, val) == [key |-> key, val |-> val]

IsDict(x) == x.k = "dict"
IsList(x) == x.k = "list"
IsStr(x)  == x.k = "str"

\* key in d
HasKey(d, key) == \E i \in 1..Len(d.v) : d.v[i].key = key

\* d[key] for a key that is present
GetItem(d, key) == d.v[CHOOSE i \in 1..Len(d.v) : d.v[i].key = key].val

\* d.get(key)
DictGet(d, key) == IF HasKey(d, key) THEN GetItem(d, key) ELSE PyNone

\* bool(x)
Truthy(x) ==
    CASE x.k = "none" -> FALSE
      [] x.k = "bool" -> x.s = "True"
      [] x.k = "int"  -> x.s # "0"
      [] x.k = "str"  -> x.s # ""
      [] OTHER        -> Len(x.v) > 0

\* d[key] = val as the decoder's dict does it: a repeated key keeps its
\* first position and takes the last value
DictSet(es, key, val) ==
    IF \E i \in 1..Len(es) : es[i].key = key
    THEN [i \in 1..Len(es) |-> IF es[i].key = key THEN Entry(key, val) ELSE es[i]]
    ELSE Append(es, Entry(key, val))

(***************************************************************************)
(* json.loads                                                              *)
(***************************************************************************)
Ok(val, nxt)   == [ok |-> TRUE,  val |-> val,    nxt |-> nxt, msg |-> ""]
Err(msg, pos)  == [ok |-> FALSE, val |-> PyNone, nxt |-> pos, msg |-> msg]


IsWs(c) == c \in WsChars

Digits == {"0", "1", "2", "3", "4", "5", "6", "7", "8", "9"}

\* the first index >= i that is not whitespace
SkipWs(s, i) == LStripSetIdx(s, i, WsChars)

\* index of the closing quote of a string whose content starts at i, 0 if none
StrEnd(s, i) ==
    LET j == LStripSetIdx(s, i, { CharAt(s, k) : k \in i..Len(s) } \ {"\""})
    IN  IF j > Len(s) THEN 0 ELSE j

\* the first index >= i that is not a digit
DigitsEnd(s, i) == LStripSetIdx(s, i, Digits)

\* scanstring: s[i] is the opening quote
ScanString(s, i) ==
    LET e == StrEnd(s, i + 1)
    IN  IF e = 0 THEN Err("Unterminated string starting at", i)
        ELSE Ok(PyStr(SubSeq(s, i + 1, e - 1)), e + 1)

RECURSIVE ScanOnce(_, _)
RECURSIVE JSONObjectLoop(_, _, _)
RECURSIVE JSONArrayLoop(_, _, _)

\* JSONObject's loop: s[i] is the opening quote of the next key
JSONObjectLoop(s, i, acc) ==
    LET key == ScanString(s, i)
    IN  IF ~key.ok THEN key
        ELSE LET c == SkipWs(s, key.nxt)
             IN  IF CharAt(s, c) # ":" THEN Err("Expecting ':' delimiter", c)
                 ELSE LET val == ScanOnce(s, SkipWs(s, c + 1))
                      IN  IF ~val.ok THEN val
                          ELSE LET d    == SkipWs(s, val.nxt)
                                   acc2 == DictSet(acc, key.val.s, val.val)
                               IN  IF CharAt(s, d) = "}" THEN Ok(PyDict(acc2), d + 1)
                                   ELSE IF CharAt(s, d) # "," THEN Err("Expecting ',' delimiter", d)
                                   ELSE LET n == SkipWs(s, d + 1)
                                        IN  IF CharAt(s, n) # "\""
                                            THEN Err("Expecting property name enclosed in double quotes", n)
                                            ELSE JSONObjectLoop(s, n, acc2)

\* JSONObject: s[i] is the character after "{"
JSONObject(s, i) ==
    LET n == SkipWs(s, i)
    IN  IF CharAt(s, n) = "}" THEN Ok(PyDict(<<>>), n + 1)
        ELSE IF CharAt(s, n) # "\""
        THEN Err("Expecting property name enclosed in double quotes", n)
        ELSE JSONObjectLoop(s, n, <<>>)

\* JSONArray's loop: s[i] is the first character of the next element
JSONArrayLoop(s, i, acc) ==
    LET val == ScanOnce(s, i)
    IN  IF ~val.ok THEN val
        ELSE LET d == SkipWs(s, val.nxt)
             IN  IF CharAt(s, d) = "]" THEN Ok(PyList(Append(acc, val.val)), d + 1)
                 ELSE IF CharAt(s, d) # "," THEN Err("Expecting ',' delimiter", d)
                 ELSE JSONArrayLoop(s, SkipWs(s, d + 1), Append(acc, val.val))

\* JSONArray: s[i] is the character after "["
JSONArray(s, i) ==
    LET n == SkipWs(s, i)
    IN  IF CharAt(s, n) = "]" THEN Ok(PyList(<<>>), n + 1)
        ELSE JSONArrayLoop(s, n, <<>>)

\* scanner.scan_once
ScanOnce(s, i) ==
    LET c == CharAt(s, i)
    IN  IF c = "\"" THEN ScanString(s, i)
        ELSE IF c = "{" THEN JSONObject(s, i + 1)
        ELSE IF c = "[" THEN JSONArray(s, i + 1)
        ELSE IF StartsWithAt(s, i, "null")  THEN Ok(PyNone, i + 4)
        ELSE IF StartsWithAt(s, i, "true")  THEN Ok(PyBool(TRUE), i + 4)
        ELSE IF StartsWithAt(s, i, "false") THEN Ok(PyBool(FALSE), i + 5)
        ELSE IF c \in Digits THEN Ok(PyInt(SubSeq(s, i, DigitsEnd(s, i) - 1)), DigitsEnd(s, i))
        ELSE Err("Expecting value", i)

\* JSONDecoder.decode: leading whitespace, one value, trailing whitespace
JsonLoads(s) ==
    LET r == ScanOnce(s, SkipWs(s, 1))
    IN  IF ~r.ok THEN r
        ELSE IF SkipWs(s, r.nxt) # Len(s) + 1 THEN Err("Extra data", SkipWs(s, r.nxt))
        ELSE r

\* the newlines among the first n characters
NewlinesBefore(s, n) == { j \in 1..n : CharAt(s, j) = "\n" }

CountNewlines(s, n) == Cardinality(NewlinesBefore(s, n))

\* 1-based index of the last newline among the first n characters, 0 if none
LastNewline(s, n) == IF NewlinesBefore(s, n) = {} THEN 0 ELSE MaxOf(NewlinesBefore(s, n))

\* JSONDecodeError.lineno / colno for the 1-based index pos
ErrLineno(s, pos) == CountNewlines(s, pos - 1) + 1
ErrColno(s, pos)  == pos - LastNewline(s, pos - 1)

(***************************************************************************)
(* str(x) and repr(x) of a decoded JSON value, as the f-strings embed them *)
(***************************************************************************)
RECURSIVE PyRepr(_)
RECURSIVE ReprItems(_, _)
RECURSIVE ReprEntries(_, _)

ReprItems(xs, i) ==
    IF i > Len(xs) THEN ""
    ELSE (IF i > 1 THEN ", " ELSE "") \o PyRepr(xs[i]) \o ReprItems(xs, i + 1)

ReprEntries(es, i) ==
    IF i > Len(es) THEN ""
    ELSE (IF i > 1 THEN ", " ELSE "") \o "'" \o es[i].key \o "': "
         \o PyRepr(es[i].val) \o ReprEntries(es, i + 1)

PyRepr(x) ==
    CASE x.k = "none" -> "None"
      [] x.k = "bool" -> x.s
      [] x.k = "int"  -> x.s
      [] x.k = "str"  -> "'" \o x.s \o "'"
      [] x.k = "list" -> "[" \o ReprItems(x.v, 1) \o "]"
      [] OTHER        -> "{" \o ReprEntries(x.v, 1) \o "}"

PyToStr(x) == IF x.k = "str" THEN x.s ELSE PyRepr(x)

\* str(type(x))
PyTypeStr(x) ==
    "<class '" \o (CASE x.k = "none" -> "NoneType"
                     [] OTHER        -> x.k) \o "'>"

\* hash(x) raises TypeError for list and dict
Hashable(x) == x.k \notin {"list", "dict"}

(***************************************************************************)
(* Ordering of str and of jsonschema error paths (sorted(..., key=e.path)) *)
(***************************************************************************)
OrdChars == " !\"#$%&'()*+,-./0123456789:;<=>?@ABCDEFGHIJKLMNOPQRSTUVWXYZ[\\]^_abcdefghijklmnopqrstuvwxyz{|}~"

Ord(c) == IF \E i \in 1..Len(OrdChars) : CharAt(OrdChars, i) = c
          THEN CHOOSE i \in 1..Len(OrdChars) : CharAt(OrdChars, i) = c
          ELSE 0

\* a < b on str: at the first index where they differ, a has ended or has
\* the smaller character
StrLess(a, b) ==
    \E i \in 1..Len(b) :
        /\ \A k \in 1..(i - 1) : CharAt(a, k) = CharAt(b, k)
        /\ i > Len(a) \/ Ord(CharAt(a, i)) < Ord(CharAt(b, i))

RECURSIVE DecVal(_, _)
\* int(txt) for a string of decimal digits (n = Len(txt))
DecVal(txt, n) ==
    IF n = 0 THEN 0
    ELSE 10 * DecVal(txt, n - 1) + (Ord(CharAt(txt, n)) - Ord("0"))

\* x < y on two path elements of the same kind (property name or index)
ElemLess(x, y) ==
    IF x.k = "int" /\ y.k = "int" THEN DecVal(x.s, Len(x.s)) < DecVal(y.s, Len(y.s))
    ELSE StrLess(x.s, y.s)

RECURSIVE PathLessFrom(_, _, _)
PathLessFrom(p, q, i) ==
    IF i > Len(q) THEN FALSE
    ELSE IF i > Len(p) THEN TRUE
    ELSE IF p[i] = q[i] THEN PathLessFrom(p, q, i + 1)
    ELSE ElemLess(p[i], q[i])

\* deque.__lt__ on two error paths
PathLess(p, q) == PathLessFrom(p, q, 1)

RECURSIVE InsertSorted(_, _)
\* insert e after every element whose path is not greater (stable)
InsertSorted(sorted, e) ==
    IF sorted = <<>> THEN <<e>>
    ELSE IF PathLess(e.path, Head(sorted).path) THEN <<e>> \o sorted
    ELSE <<Head(sorted)>> \o InsertSorted(Tail(sorted), e)

\* a faulty variant of SortedByPath: the errors are left as found
SortedByPathUnsorted(errs) == errs

RECURSIVE SortedByPath(_)
\* sorted(errs, key=lambda e: e.path)
SortedByPath(errs) ==
    IF errs = <<>> THEN <<>>
    ELSE InsertSorted(SortedByPath(SubSeq(errs, 1, Len(errs) - 1)), errs[Len(errs)])

(***************************************************************************)
(* The jsonschema validator, for the keywords the schema documents of the  *)
(* model use: $ref, type, required, properties, items                      *)
(***************************************************************************)
\* s.find(p, i) as a 1-based index, 0 when p does not occur
StrFind(s, p, i) == IF Occurrences(s, i, p) = {} THEN 0 ELSE MinOf(Occurrences(s, i, p))

DefsMarker == "#/definitions/"

\* the type name a reference "<id>#/definitions/<name>" points to
RefName(ref) ==
    LET at == StrFind(ref, DefsMarker, 1)
    IN  IF at = 0 THEN "" ELSE SubSeq(ref, at + Len(DefsMarker), Len(ref))

\* validator.is_type(inst, type)
IsType(inst, ty) ==
    CASE ty = "object"  -> inst.k = "dict"
      [] ty = "array"   -> inst.k = "list"
      [] ty = "string"  -> inst.k = "str"
      [] ty = "integer" -> inst.k = "int"
      [] ty = "number"  -> inst.k = "int"
      [] ty = "boolean" -> inst.k = "bool"
      [] ty = "null"    -> inst.k = "none"
      [] OTHER          -> FALSE

SchemaError(path, message, inst) == [path |-> path, message |-> message, instance |-> inst]

RECURSIVE IterErrors(_, _, _, _)
RECURSIVE KeywordErrors(_, _, _, _, _)
RECURSIVE RequiredErrors(_, _, _, _)
RECURSIVE PropertiesErrors(_, _, _, _, _)
RECURSIVE ItemsErrors(_, _, _, _, _)

RequiredErrors(inst, names, path, i) ==
    IF i > Len(names) THEN <<>>
    ELSE (IF HasKey(inst, names[i].s) THEN <<>>
          ELSE <<SchemaError(path, PyRepr(names[i]) \o " is a required property", inst)>>)
         \o RequiredErrors(inst, names, path, i + 1)

PropertiesErrors(inst, props, defs, path, i) ==
    IF i > Len(props) THEN <<>>
    ELSE (IF HasKey(inst, props[i].key)
          THEN IterErrors(GetItem(inst, props[i].key), props[i].val, defs,
                          Append(path, PyStr(props[i].key)))
          ELSE <<>>)
         \o PropertiesErrors(inst, props, defs, path, i + 1)

ItemsErrors(inst, sub, defs, path, i) ==
    IF i > Len(inst.v) THEN <<>>
    ELSE IterErrors(inst.v[i], sub, defs, Append(path, PyInt(ToString(i - 1))))
         \o ItemsErrors(inst, sub, defs, path, i + 1)

\* the errors of one keyword of a schema
KeywordErrors(inst, kw, arg, defs, path) ==
    CASE kw = "type" ->
            IF IsType(inst, arg.s) THEN <<>>
            ELSE <<SchemaError(path, PyRepr(inst) \o " is not of type " \o PyRepr(arg), inst)>>
      [] kw = "required" ->
            IF IsDict(inst) THEN RequiredErrors(inst, arg.v, path, 1) ELSE <<>>
      [] kw = "properties" ->
            IF IsDict(inst) THEN PropertiesErrors(inst, arg.v, defs, path, 1) ELSE <<>>
      [] kw = "items" ->
            IF IsList(inst) /\ IsDict(arg) THEN ItemsErrors(inst, arg, defs, path, 1) ELSE <<>>
      [] OTHER -> <<>>

RECURSIVE AllKeywordErrors(_, _, _, _, _)
AllKeywordErrors(inst, schema, defs, path, i) ==
    IF i > Len(schema.v) THEN <<>>
    ELSE KeywordErrors(inst, schema.v[i].key, schema.v[i].val, defs, path)
         \o AllKeywordErrors(inst, schema, defs, path, i + 1)

\* Validator.iter_errors: a $ref replaces its siblings, the other keywords
\* are applied in the order of the schema's keys
IterErrors(inst, schema, defs, path) ==
    IF ~IsDict(schema) THEN <<>>
    ELSE IF HasKey(schema, "$ref")
    THEN LET name == RefName(GetItem(schema, "$ref").s)
         IN  IF HasKey(defs, name) THEN IterErrors(inst, GetItem(defs, name), defs, path)
             ELSE <<>>
    ELSE AllKeywordErrors(inst, schema, defs, path, 1)

RECURSIVE JoinPath(_, _)
\* " -> ".join(str(p) for p in e.path)
JoinPath(path, i) ==
    IF i > Len(path) THEN ""
    ELSE (IF i > 1 THEN " -> " ELSE "") \o PyToStr(path[i]) \o JoinPath(path, i + 1)

(***************************************************************************)
(* More Python str methods used by the semantic checks                     *)
(***************************************************************************)
UpperChars == "ABCDEFGHIJKLMNOPQRSTUVWXYZ"
LowerChars == "abcdefghijklmnopqrstuvwxyz"

LowerChar(c) ==
    IF \E i \in 1..26 : CharAt(UpperChars, i) = c
    THEN CharAt(LowerChars, CHOOSE i \in 1..26 : CharAt(UpperChars, i) = c)
    ELSE c

RECURSIVE StrLowerRange(_, _, _)
\* s[i..j].lower(), by halves
StrLowerRange(s, i, j) ==
    IF i > j THEN ""
    ELSE IF i = j THEN LowerChar(CharAt(s, i))
    ELSE StrLowerRange(s, i, (i + j) \div 2) \o StrLowerRange(s, (i + j) \div 2 + 1, j)

\* s.lower()
StrLower(s) == StrLowerRange(s, 1, Len(s))

\* the first index >= i that is whitespace (Len(s) + 1 if none)
NonWsEnd(s, i) ==
    CHOOSE j \in i..(Len(s) + 1) :
        /\ j = Len(s) + 1 \/ IsWs(CharAt(s, j))
        /\ \A k \in i..(j - 1) : ~IsWs(CharAt(s, k))

RECURSIVE StrSplitFrom(_, _)
StrSplitFrom(s, i) ==
    LET b == SkipWs(s, i)
    IN  IF b > Len(s) THEN <<>>
        ELSE <<SubSeq(s, b, NonWsEnd(s, b) - 1)>> \o StrSplitFrom(s, NonWsEnd(s, b))

\* s.split()
StrSplit(s) == StrSplitFrom(s, 1)

RECURSIVE StrJoin(_, _, _)
\* sep.join(xs) for a list of str values
StrJoin(sep, xs, i) ==
    IF i > Len(xs) THEN ""
    ELSE (IF i > 1 THEN sep ELSE "") \o xs[i].s \o StrJoin(sep, xs, i + 1)

\* x in xs for a list xs
InList(x, xs) == \E i \in 1..Len(xs) : xs[i] = x

(***************************************************************************)
(* Reference data caches (module globals) and their loaders                *)
(***************************************************************************)
\* a file: its text (the icon list) or the JSON document it holds, which is
\* what json.load returns
NoFile == [exists |-> FALSE, content |-> ""]
File(content) == [exists |-> TRUE, content |-> content]

NotLoaded == [loaded |-> FALSE, data |-> PyNone]
Loaded(data) == [loaded |-> TRUE, data |-> data]

RECURSIVE FontsTable(_, _, _)
\* {item['family']: item.get('variants', []) for item in items}
FontsTable(items, i, acc) ==
    IF i > Len(items) THEN acc
    ELSE FontsTable(items, i + 1,
                    DictSet(acc, GetItem(items[i], "family").s,
                            IF HasKey(items[i], "variants")
                            THEN GetItem(items[i], "variants") ELSE PyList(<<>>)))

\* the body of _get_google_fonts_data when the cache is None
LoadGoogleFonts(file) ==
    IF ~file.exists THEN PyDict(<<>>)
    ELSE LET fonts_data == file.content
             items == IF HasKey(fonts_data, "items") THEN GetItem(fonts_data, "items")
                                                     ELSE PyList(<<>>)
         IN  IF \E j \in 1..Len(items.v) : ~HasKey(items.v[j], "family")
             THEN PyDict(<<>>)
             ELSE PyDict(FontsTable(items.v, 1, <<>>))

\* a faulty variant of CacheIsNone: the cache is taken for unfilled every time
CacheIsNoneAlways(cache) == TRUE

\* _LUCIDE_ICONS_SET is None, _GOOGLE_FONTS_DATA is None
CacheIsNone(cache) == ~cache.loaded

\* a faulty variant of GetGoogleFontsData: a filled cache is emptied
GetGoogleFontsDataForgetful(cache, file) ==
    IF cache.loaded THEN Loaded(PyDict(<<>>)) ELSE Loaded(LoadGoogleFonts(file))

\* _get_google_fonts_data: the cache after the call
GetGoogleFontsData(cache, file) ==
    IF CacheIsNone(cache) THEN Loaded(LoadGoogleFonts(file)) ELSE cache

\* set(f.read().splitlines()): the text between two line breaks, before the
\* first and, when the text does not end in one, after the last
SplitLines(s) ==
    LET starts == {1} \cup { j + 1 : j \in NewlinesBefore(s, Len(s)) }
    IN  { SubSeq(s, b, LStripSetIdx(s, b, {c \in { CharAt(s, k) : k \in 1..Len(s) } : c # "\n"}) - 1) :
            b \in { t \in starts : t <= Len(s) } }

\* the body of _get_lucide_icons_set when the cache is None
LoadLucideIcons(file) == IF ~file.exists THEN {} ELSE SplitLines(file.content)

\* _get_lucide_icons_set: the cache after the call
GetLucideIconsSet(cache, file) ==
    IF CacheIsNone(cache) THEN Loaded(LoadLucideIcons(file)) ELSE cache

(***************************************************************************)
(* Semantic predicates: "" stands for a returned None                      *)
(***************************************************************************)
\* validate_single_icon_name
ValidateSingleIconName(icons, icon_name) ==
    IF StrLower(icon_name) \notin icons
    THEN "Invalid icon name: '" \o icon_name \o "'"
    ELSE ""

\* validate_single_font_family
ValidateSingleFontFamily(fonts, font_family) ==
    IF ~HasKey(fonts, font_family)
    THEN "Invalid font family: '" \o font_family \o "'"
    ELSE ""

\* variant_mapping.get(variant.lower(), variant)
NormalizedVariant(variant) ==
    LET low == StrLower(variant)
    IN  CASE low = "regular"    -> "400"
          [] low = "italic"     -> "400italic"
          [] low = "bold"       -> "700"
          [] low = "bolditalic" -> "700italic"
          [] OTHER              -> variant

\* validate_font_variant
ValidateFontVariant(fonts, font_family, variant) ==
    IF ~HasKey(fonts, font_family)
    THEN "Invalid font family: '" \o font_family \o "'"
    ELSE LET variants == GetItem(fonts, font_family)
         IN  IF ~InList(PyStr(NormalizedVariant(variant)), variants.v)
                /\ ~InList(PyStr(variant), variants.v)
             THEN "Invalid variant '" \o variant \o "' for font family '" \o font_family
                  \o "'. Valid variants: " \o StrJoin(", ", variants.v, 1)
             ELSE ""

FontsUrlPrefix == "https://fonts.googleapis.com/css"

\* validate_google_fonts_url
ValidateGoogleFontsUrl(url, font_family) ==
    IF ~StartsWith(url, FontsUrlPrefix)
    THEN "Invalid Google Fonts URL: must start with 'https://fonts.googleapis.com/css'"
    ELSE IF ~StrContains(url, "family=" \o StrReplace(font_family, " ", "+"))
    THEN "Font family '" \o font_family \o "' not found in URL: " \o url
    ELSE ""

HexDigits == "0123456789abcdef"

IsHexChar(c) == c # "" /\ \E i \in 1..16 : CharAt(HexDigits, i) = LowerChar(c)

HexVal(c) == (CHOOSE i \in 1..16 : CharAt(HexDigits, i) = LowerChar(c)) - 1

AllHex(s) == \A i \in 1..Len(s) : IsHexChar(CharAt(s, i))

\* validate_hex_color: re.match of ^#?[0-9A-Fa-f]{6}$|^#?[0-9A-Fa-f]{3}$
\* ($ also matches before one trailing newline)
ValidateHexColor(hex_color) ==
    LET a == IF StartsWith(hex_color, "#") THEN SubSeq(hex_color, 2, Len(hex_color))
                                           ELSE hex_color
        b == IF Len(a) > 0 /\ CharAt(a, Len(a)) = "\n" THEN SubSeq(a, 1, Len(a) - 1) ELSE a
    IN  IF Len(b) \in {3, 6} /\ AllHex(b) THEN ""
        ELSE "Invalid hex color: '" \o hex_color \o "'. Must be in format #RRGGBB or #RGB"

NoRgb == <<>>

\* the three-digit form doubled
SixDigits(a) ==
    IF Len(a) = 3
    THEN CharAt(a, 1) \o CharAt(a, 1) \o CharAt(a, 2) \o CharAt(a, 2)
         \o CharAt(a, 3) \o CharAt(a, 3)
    ELSE a

\* int(.., 16) of the three pairs; NoRgb stands for None, returned on a
\* length other than 6 and on the ValueError of a pair that is not hexadecimal
RgbOf(b) ==
    IF Len(b) # 6 \/ ~AllHex(b) THEN NoRgb
    ELSE << 16 * HexVal(CharAt(b, 1)) + HexVal(CharAt(b, 2)),
            16 * HexVal(CharAt(b, 3)) + HexVal(CharAt(b, 4)),
            16 * HexVal(CharAt(b, 5)) + HexVal(CharAt(b, 6)) >>

\* hex_to_rgb
HexToRgb(hex_color) == RgbOf(SixDigits(StrLStripSet(hex_color, {"#"})))

\* adjust(c) of get_relative_luminance for c = 0..255, in units of 1/10000
AdjustTable ==
    <<
       0, 3, 6, 9, 12, 15, 18, 21, 24, 27, 30, 33, 37, 40, 44, 48,
       52, 56, 60, 65, 70, 75, 80, 86, 91, 97, 103, 110, 116, 123, 130, 137,
       144, 152, 160, 168, 176, 185, 194, 203, 212, 222, 232, 242, 252, 262, 273, 284,
       296, 307, 319, 331, 343, 356, 369, 382, 395, 409, 423, 437, 452, 467, 482, 497,
       513, 529, 545, 561, 578, 595, 612, 630, 648, 666, 685, 704, 723, 742, 762, 782,
       802, 823, 844, 865, 887, 908, 931, 953, 976, 999, 1022, 1046, 1070, 1095, 1119, 1144,
       1170, 1195, 1221, 1248, 1274, 1301, 1329, 1356, 1384, 1413, 1441, 1470, 1500, 1529, 1559, 1590,
       1620, 1651, 1683, 1714, 1746, 1779, 1812, 1845, 1878, 1912, 1946, 1981, 2016, 2051, 2086, 2122,
       2159, 2195, 2232, 2270, 2307, 2346, 2384, 2423, 2462, 2502, 2542, 2582, 2623, 2664, 2705, 2747,
       2789, 2831, 2874, 2918, 2961, 3005, 3050, 3095, 3140, 3185, 3231, 3278, 3325, 3372, 3419, 3467,
       3515, 3564, 3613, 3663, 3712, 3763, 3813, 3864, 3916, 3968, 4020, 4072, 4125, 4179, 4233, 4287,
       4342, 4397, 4452, 4508, 4564, 4621, 4678, 4735, 4793, 4851, 4910, 4969, 5029, 5089, 5149, 5210,
       5271, 5333, 5395, 5457, 5520, 5583, 5647, 5711, 5776, 5841, 5906, 5972, 6038, 6105, 6172, 6240,
       6308, 6376, 6445, 6514, 6584, 6654, 6724, 6795, 6867, 6939, 7011, 7084, 7157, 7231, 7305, 7379,
       7454, 7529, 7605, 7682, 7758, 7835, 7913, 7991, 8070, 8148, 8228, 8308, 8388, 8469, 8550, 8632,
       8714, 8796, 8879, 8963, 9047, 9131, 9216, 9301, 9387, 9473, 9560, 9647, 9734, 9823, 9911, 10000
    >>

\* get_relative_luminance, in units of 10^-8
GetRelativeLuminance(rgb) ==
    2126 * AdjustTable[rgb[1] + 1] + 7152 * AdjustTable[rgb[2] + 1]
    + 722 * AdjustTable[rgb[3] + 1]

Max(a, b) == IF a >= b THEN a ELSE b
Min(a, b) == IF a <= b THEN a ELSE b
Abs(a) == IF a < 0 THEN 0 - a ELSE a

TwoDigits(n) == (IF n < 10 THEN "0" ELSE "") \o ToString(n)

\* the ratio hi / lo rounded to two decimals, as hundredths
Hundredths(hi, lo) == ((hi \div 100) * 100 + (lo \div 100) \div 2) \div (lo \div 100)

RatioText(hund) ==
    "Low contrast ratio " \o ToString(hund \div 100) \o "." \o TwoDigits(hund % 100)
    \o ":1 (recommended minimum: 4.5:1 for readability)"

\* ratio < 4.5 for ratio = hi / lo
RatioMessage(hi, lo) == IF 2 * hi < 9 * lo THEN RatioText(Hundredths(hi, lo)) ELSE ""

\* get_contrast_ratio: lighter + 0.05 and darker + 0.05, in units of 10^-8
LuminanceMessage(lum1, lum2) ==
    RatioMessage(Max(lum1, lum2) + 5000000, Min(lum1, lum2) + 5000000)

RgbMessage(rgb1, rgb2) ==
    IF rgb1 = NoRgb \/ rgb2 = NoRgb
    THEN "Could not calculate contrast ratio - invalid colors"
    ELSE LuminanceMessage(GetRelativeLuminance(rgb1), GetRelativeLuminance(rgb2))

\* validate_color_contrast with min_ratio = 4.5; the colours are str values
ValidateColorContrast(foreground, background) ==
    RgbMessage(HexToRgb(foreground), HexToRgb(background))

(***************************************************************************)
(* Outcome of a helper that appends to the error list: the entries it      *)
(* appended and the exception that ended it ("" when it returned)          *)
(***************************************************************************)
Done(errs)   == [exc |-> "", errs |-> errs]
Raised(exc)  == [exc |-> exc, errs |-> <<>>]

\* a then b, b not run when a raised
Then(a, b) == IF a.exc # "" THEN a ELSE [exc |-> b.exc, errs |-> a.errs \o b.errs]

OneIf(msg) == IF msg = "" THEN <<>> ELSE <<msg>>

\* p in x: substring of a str, element of a list, key of a dict, TypeError
\* for None, bool and int
PyInRaises(x) == x.k \in {"none", "bool", "int"}
PyIn(p, x) ==
    CASE x.k = "str"  -> StrContains(x.s, p)
      [] x.k = "list" -> InList(PyStr(p), x.v)
      [] x.k = "dict" -> HasKey(x, p)
      [] OTHER        -> FALSE

\* txt without its sign
Unsigned(txt) == IF CharAt(txt, 1) \in {"+", "-"} THEN SubSeq(txt, 2, Len(txt)) ELSE txt

FloatShape(a, d) ==
    /\ d > 1
    /\ \/ d = Len(a) + 1
       \/ /\ CharAt(a, d) = "."
          /\ d + 1 = Len(a)
          /\ CharAt(a, d + 1) \in Digits

\* float(txt) for txt of the form [+-]digits[.digit], in tenths; any other
\* text is the ValueError of the model
FloatOk(txt) == FloatShape(Unsigned(txt), DigitsEnd(Unsigned(txt), 1))

FloatMagnitude(a, d) ==
    10 * DecVal(SubSeq(a, 1, d - 1), d - 1)
    + (IF d <= Len(a) THEN DecVal(CharAt(a, d + 1), 1) ELSE 0)

FloatTenths(txt) ==
    IF CharAt(txt, 1) = "-"
    THEN 0 - FloatMagnitude(Unsigned(txt), DigitsEnd(Unsigned(txt), 1))
    ELSE FloatMagnitude(Unsigned(txt), DigitsEnd(Unsigned(txt), 1))

\* repr of a float given in tenths, also its format under :.1f
FloatRepr(t) ==
    (IF t < 0 THEN "-" ELSE "") \o ToString(Abs(t) \div 10) \o "." \o ToString(Abs(t) % 10)

HslResult(exc, msg) == [exc |-> exc, msg |-> msg]

LightnessMessage(lightness1, lightness2, lightness_diff, min_diff) ==
    IF lightness_diff < 10 * min_diff
    THEN HslResult("",
           "CRITICAL: Insufficient lightness contrast. "
           \o "Color1 L=" \o FloatRepr(lightness1) \o "%, Color2 L="
           \o FloatRepr(lightness2) \o "%. "
           \o "Difference=" \o FloatRepr(lightness_diff)
           \o "% (minimum required: " \o ToString(min_diff) \o "%). "
           \o "This will cause visibility issues!")
    ELSE HslResult("", "")

LightnessDiff(lightness1, lightness2, min_diff) ==
    LightnessMessage(lightness1, lightness2, Abs(lightness1 - lightness2), min_diff)

\* float() of the two lightness texts; its ValueError is caught
LightnessOf(t1, t2, min_diff) ==
    IF ~FloatOk(t1) \/ ~FloatOk(t2) THEN HslResult("", "")
    ELSE LightnessDiff(FloatTenths(t1), FloatTenths(t2), min_diff)

HslParts(parts1, parts2, min_diff) ==
    IF Len(parts1) < 3 \/ Len(parts2) < 3 THEN HslResult("", "")
    ELSE LightnessOf(StrRStripSet(parts1[3], {"%"}), StrRStripSet(parts2[3], {"%"}), min_diff)

\* validate_hsl_lightness_contrast; min_diff is an int
ValidateHslLightnessContrast(color1_hsl, color2_hsl, min_diff) ==
    IF PyInRaises(color1_hsl) THEN HslResult("TypeError", "")
    ELSE IF ~(PyIn(" ", color1_hsl) /\ PyIn("%", color1_hsl)) THEN HslResult("", "")
    ELSE IF PyInRaises(color2_hsl) THEN HslResult("TypeError", "")
    ELSE IF ~(PyIn(" ", color2_hsl) /\ PyIn("%", color2_hsl)) THEN HslResult("", "")
    ELSE IF ~IsStr(color1_hsl) \/ ~IsStr(color2_hsl) THEN HslResult("AttributeError", "")
    ELSE HslParts(StrSplit(StrStrip(color1_hsl.s)), StrSplit(StrStrip(color2_hsl.s)), min_diff)

RECURSIVE ChartColorsOf(_, _)
\* [v for k, v in charts.items() if k.startswith('chart-') and v]
ChartColorsOf(es, i) ==
    IF i > Len(es) THEN <<>>
    ELSE (IF StartsWith(es[i].key, "chart-") /\ Truthy(es[i].val) THEN <<es[i].val>> ELSE <<>>)
         \o ChartColorsOf(es, i + 1)

RECURSIVE ChartHexWarnings(_, _)
ChartHexWarnings(colors, i) ==
    IF i > Len(colors) THEN <<>>
    ELSE LET err == ValidateHexColor(colors[i].s)
         IN  (IF err = "" THEN <<>> ELSE <<"Chart color " \o ToString(i) \o ": " \o err>>)
             \o ChartHexWarnings(colors, i + 1)

\* (r // 50, g // 50, b // 50)
Hue(rgb) == <<rgb[1] \div 50, rgb[2] \div 50, rgb[3] \div 50>>

UniqueHues(colors) ==
    { Hue(rgb) : rgb \in { HexToRgb(colors[i].s) : i \in 1..Len(colors) } \ {NoRgb} }

\* validate_chart_colors: re.match raises TypeError on a colour that is not
\* a str
ValidateChartColors(charts) ==
    LET chart_colors == ChartColorsOf(charts.v, 1)
    IN  IF \E i \in 1..Len(chart_colors) : ~IsStr(chart_colors[i]) THEN Raised("TypeError")
        ELSE Done(ChartHexWarnings(chart_colors, 1)
                  \o (IF Len(chart_colors) >= 2
                         /\ 10 * Cardinality(UniqueHues(chart_colors)) < 6 * Len(chart_colors)
                      THEN <<"Chart colors may be too similar - consider more distinct hues for better differentiation">>
                      ELSE <<>>))

(***************************************************************************)
(* Constants of validation.py                                              *)
(***************************************************************************)
SKIP_VALIDATION_COMPONENTS == <<PyStr("IconProps")>>

PageTypes == <<PyStr("WebPageProps"), PyStr("BlogPostPageProps"), PyStr("BlogMainPageProps")>>

\* a faulty variant of SkippedParentKeys: "actions" is forgotten
SkippedParentKeysFieldsOnly == {"fields"}

SkippedParentKeys == {"fields", "actions"}

MinDiffForeground == 50
MinDiffPrimary == 40

(***************************************************************************)
(* _validate_inst                                                          *)
(***************************************************************************)
RECURSIVE FormatSchemaErrors(_, _, _, _)
FormatSchemaErrors(es, loc, comp_type, i) ==
    IF i > Len(es) THEN <<>>
    ELSE <<"[" \o loc \o ":" \o PyToStr(comp_type) \o "] error at '"
           \o (IF es[i].path = <<>> THEN "<self>" ELSE JoinPath(es[i].path, 1))
           \o "': " \o es[i].message \o " (value=" \o PyRepr(es[i].instance) \o ")">>
         \o FormatSchemaErrors(es, loc, comp_type, i + 1)

\* comp_type in defs, for a hashable comp_type
Declared(comp_type, defs) == IsStr(comp_type) /\ HasKey(defs, comp_type.s)

UnknownTypeError(loc, comp_type) ==
    "[" \o loc \o "] Unknown componentType '" \o PyToStr(comp_type) \o "'"

\* the icon name check at the end of _validate_inst
IconCheckApplies(inst, comp_type) ==
    /\ comp_type = PyStr("IconProps")
    /\ IsDict(inst)
    /\ Truthy(DictGet(inst, "name"))
    /\ IsStr(DictGet(inst, "name"))

IconErrors(inst, loc, icons) ==
    LET icon_error == ValidateSingleIconName(icons, DictGet(inst, "name").s)
    IN  IF icon_error = "" THEN <<>> ELSE <<"[" \o loc \o ":IconProps] " \o icon_error>>

\* a faulty variant of ValidateInst: a name declared nowhere is passed over
\* in silence
ValidateInstSilent(inst, comp_type, loc, adefs, cdefs, icons) ==
    IF ~Hashable(comp_type) THEN Raised("TypeError")
    ELSE IF ~Declared(comp_type, adefs) /\ ~Declared(comp_type, cdefs)
    THEN Done(<<>>)
    ELSE Done(FormatSchemaErrors(
                  SortedByPath(IterErrors(inst,
                      GetItem(IF Declared(comp_type, adefs) THEN adefs ELSE cdefs, comp_type.s),
                      IF Declared(comp_type, adefs) THEN adefs ELSE cdefs, <<>>)),
                  loc, comp_type, 1)
              \o (IF IconCheckApplies(inst, comp_type)
                  THEN IconErrors(inst, loc, icons) ELSE <<>>))

\* _validate_inst(inst, comp_type, loc): app_defs is searched before
\* comp_defs; icons is the icon set _get_lucide_icons_set returns
ValidateInst(inst, comp_type, loc, adefs, cdefs, icons) ==
    IF ~Hashable(comp_type) THEN Raised("TypeError")
    ELSE IF ~Declared(comp_type, adefs) /\ ~Declared(comp_type, cdefs)
    THEN Done(<<UnknownTypeError(loc, comp_type)>>)
    ELSE LET defs == IF Declared(comp_type, adefs) THEN adefs ELSE cdefs
             found == SortedByPath(IterErrors(inst, GetItem(defs, comp_type.s), defs, <<>>))
         IN  Done(FormatSchemaErrors(found, loc, comp_type, 1)
                  \o (IF IconCheckApplies(inst, comp_type)
                      THEN IconErrors(inst, loc, icons) ELSE <<>>))

(***************************************************************************)
(* _validate_webapp_fonts                                                  *)
(***************************************************************************)
FontFamilyChecked(font_config) ==
    /\ Truthy(DictGet(font_config, "family"))
    /\ IsStr(DictGet(font_config, "family"))

\* the errors of one entry of the fonts mapping
FontEntryErrors(font_config, font_loc, fonts) ==
    LET family  == DictGet(font_config, "family")
        variant == DictGet(font_config, "variant")
        url     == DictGet(font_config, "url")
        cleaned_family == StrStripSet(StrStrip(family.s), {"'", "\""})
        font_error == ValidateSingleFontFamily(fonts, cleaned_family)
    IN  (IF FontFamilyChecked(font_config)
         THEN (IF font_error # "" THEN <<"[" \o font_loc \o "] " \o font_error>> ELSE <<>>)
              \o (IF font_error = "" /\ Truthy(variant) /\ IsStr(variant)
                     /\ ValidateFontVariant(fonts, cleaned_family, variant.s) # ""
                  THEN <<"[" \o font_loc \o "] "
                         \o ValidateFontVariant(fonts, cleaned_family, variant.s)>>
                  ELSE <<>>)
              \o (IF font_error = "" /\ Truthy(url) /\ IsStr(url)
                     /\ ValidateGoogleFontsUrl(url.s, cleaned_family) # ""
                  THEN <<"[" \o font_loc \o "] "
                         \o ValidateGoogleFontsUrl(url.s, cleaned_family)>>
                  ELSE <<>>)
         ELSE <<>>)
        \o (IF ~Truthy(family)  THEN <<"[" \o font_loc \o "] Missing required 'family' field">>
                                ELSE <<>>)
        \o (IF ~Truthy(variant) THEN <<"[" \o font_loc \o "] Missing required 'variant' field">>
                                ELSE <<>>)
        \o (IF ~Truthy(url)     THEN <<"[" \o font_loc \o "] Missing required 'url' field">>
                                ELSE <<>>)

RECURSIVE FontsLoop(_, _, _, _)
FontsLoop(es, loc, fonts, i) ==
    IF i > Len(es) THEN <<>>
    ELSE (IF IsDict(es[i].val)
          THEN FontEntryErrors(es[i].val, loc \o ".fonts." \o es[i].key, fonts)
          ELSE <<>>)
         \o FontsLoop(es, loc, fonts, i + 1)

HasFontsDict(webapp_config) ==
    HasKey(webapp_config, "fonts") /\ IsDict(GetItem(webapp_config, "fonts"))

\* _validate_webapp_fonts(webapp_config, loc); it never raises
ValidateWebappFonts(webapp_config, loc, fonts) ==
    IF HasFontsDict(webapp_config)
    THEN Done(FontsLoop(GetItem(webapp_config, "fonts").v, loc, fonts, 1))
    ELSE Done(<<>>)

\* whether _validate_webapp_fonts calls _get_google_fonts_data
FontsDataRead(webapp_config) ==
    /\ HasFontsDict(webapp_config)
    /\ \E i \in 1..Len(GetItem(webapp_config, "fonts").v) :
          LET fc == GetItem(webapp_config, "fonts").v[i].val
          IN  IsDict(fc) /\ FontFamilyChecked(fc)

(***************************************************************************)
(* _validate_webapp_theme                                                  *)
(***************************************************************************)
IsHslText(txt) == StrContains(txt, " ") /\ StrContains(txt, "%")

RECURSIVE PaletteHexErrors(_, _, _)
\* the hex check of every entry of a palette
PaletteHexErrors(es, pal_loc, i) ==
    IF i > Len(es) THEN <<>>
    ELSE (IF Truthy(es[i].val) /\ IsStr(es[i].val) /\ ~IsHslText(es[i].val.s)
             /\ ValidateHexColor(es[i].val.s) # ""
          THEN <<"[" \o pal_loc \o "." \o es[i].key \o "] " \o ValidateHexColor(es[i].val.s)>>
          ELSE <<>>)
         \o PaletteHexErrors(es, pal_loc, i + 1)

\* "[loc] label: msg" for a message, nothing for None
Labelled(pal_loc, label, msg) ==
    IF msg = "" THEN <<>> ELSE <<"[" \o pal_loc \o "] " \o label \o ": " \o msg>>

\* the fallback: validate_color_contrast(c2, c1)
ContrastFallback(c1, c2, check, pal_loc) ==
    IF ~IsStr(c2) \/ ~IsStr(c1) THEN Raised("AttributeError")
    ELSE Done(Labelled(pal_loc, check.label, ValidateColorContrast(c2.s, c1.s)))

\* what follows the HSL lightness check of two palette entries: its message,
\* or the contrast-ratio check when it reports nothing and there is a fallback
PairOutcome(hsl, c1, c2, check, pal_loc) ==
    IF hsl.exc # "" THEN Raised(hsl.exc)
    ELSE IF hsl.msg # "" THEN Done(Labelled(pal_loc, check.label, hsl.msg))
    ELSE IF ~check.fallback THEN Done(<<>>)
    ELSE ContrastFallback(c1, c2, check, pal_loc)

PairColors(c1, c2, check, pal_loc) ==
    PairOutcome(ValidateHslLightnessContrast(c1, c2, check.min_diff), c1, c2, check, pal_loc)

\* one "if key1 in palette and key2 in palette" block
PairCheck(palette, check, pal_loc) ==
    IF ~(HasKey(palette, check.key1) /\ HasKey(palette, check.key2)) THEN Done(<<>>)
    ELSE PairColors(GetItem(palette, check.key1), GetItem(palette, check.key2), check, pal_loc)

Check(key1, key2, min_diff, fallback, label) ==
    [key1 |-> key1, key2 |-> key2, min_diff |-> min_diff, fallback |-> fallback,
     label |-> label]

\* the pair checks of the light palette, in the order of the code
LightChecks ==
    << Check("background", "foreground", MinDiffForeground, TRUE, "Background/Foreground"),
       Check("background", "primary", MinDiffPrimary, FALSE, "Background/Primary"),
       Check("primary", "primary-foreground", MinDiffPrimary, TRUE,
             "Primary/Primary-foreground"),
       Check("background", "accent", MinDiffPrimary, FALSE, "Background/Accent") >>

\* the pair checks of the dark palette, in the order of the code
DarkChecks ==
    << Check("background", "foreground", MinDiffForeground, TRUE, "Background/Foreground"),
       Check("background", "primary", MinDiffPrimary, FALSE, "Background/Primary"),
       Check("primary", "primary-foreground", MinDiffPrimary, FALSE,
             "Primary/Primary-foreground") >>

Palettes == << [name |-> "light", checks |-> LightChecks],
               [name |-> "dark",  checks |-> DarkChecks] >>

RECURSIVE PairChecks(_, _, _, _)
PairChecks(palette, checks, pal_loc, i) ==
    IF i > Len(checks) THEN Done(<<>>)
    ELSE Then(PairCheck(palette, checks[i], pal_loc),
              PairChecks(palette, checks, pal_loc, i + 1))

\* the block of one palette: the hex check of its entries, then its pairs
PaletteCheck(theme, theme_loc, palette) ==
    IF ~(HasKey(theme, palette.name) /\ IsDict(GetItem(theme, palette.name))) THEN Done(<<>>)
    ELSE Then(Done(PaletteHexErrors(GetItem(theme, palette.name).v,
                                    theme_loc \o "." \o palette.name, 1)),
              PairChecks(GetItem(theme, palette.name), palette.checks,
                         theme_loc \o "." \o palette.name, 1))

RECURSIVE PaletteChecks(_, _, _)
\* the light block, then the dark block
PaletteChecks(theme, theme_loc, i) ==
    IF i > Len(Palettes) THEN Done(<<>>)
    ELSE Then(PaletteCheck(theme, theme_loc, Palettes[i]),
              PaletteChecks(theme, theme_loc, i + 1))

RECURSIVE Prefixed(_, _, _)
Prefixed(prefix, msgs, i) ==
    IF i > Len(msgs) THEN <<>> ELSE <<prefix \o msgs[i]>> \o Prefixed(prefix, msgs, i + 1)

\* the warnings of validate_chart_colors under their location
ChartWarnings(w, theme_loc) ==
    IF w.exc # "" THEN w ELSE Done(Prefixed("[" \o theme_loc \o ".charts] ", w.errs, 1))

ChartsCheck(theme, theme_loc) ==
    IF ~(HasKey(theme, "charts") /\ IsDict(GetItem(theme, "charts"))) THEN Done(<<>>)
    ELSE ChartWarnings(ValidateChartColors(GetItem(theme, "charts")), theme_loc)

ThemeOf(webapp_config) ==
    IF HasKey(webapp_config, "theme") THEN GetItem(webapp_config, "theme") ELSE PyNone

\* the checks of a theme that is a dict
ThemeChecks(theme, theme_loc, fonts) ==
    Then(PaletteChecks(theme, theme_loc, 1),
    Then(ChartsCheck(theme, theme_loc),
         ValidateWebappFonts(theme, theme_loc, fonts)))

\* _validate_webapp_theme(webapp_config, loc)
ValidateWebappTheme(webapp_config, loc, fonts) ==
    IF ~IsDict(ThemeOf(webapp_config)) THEN Done(<<>>)
    ELSE ThemeChecks(ThemeOf(webapp_config), loc \o ".theme", fonts)

(***************************************************************************)
(* full_schema_utils.py: _find_schema_references and resolve_ref           *)
(***************************************************************************)
\* the indices at which '#/definitions/' is followed by a character other
\* than '/'
RefMatches(value) ==
    { j \in Occurrences(value, 1, DefsMarker) :
        /\ j + Len(DefsMarker) <= Len(value)
        /\ CharAt(value, j + Len(DefsMarker)) # "/" }

\* group(1) of the match that begins at index at: up to the next '/' or
\* the end
RefGroup(value, at) ==
    SubSeq(value, at + Len(DefsMarker),
           IF Occurrences(value, at + Len(DefsMarker), "/") = {} THEN Len(value)
           ELSE MinOf(Occurrences(value, at + Len(DefsMarker), "/")) - 1)

\* re.search(r'#/definitions/([^/]+)', value): the names it yields, none or
\* one
SearchRefName(value) ==
    IF RefMatches(value) = {} THEN {} ELSE {RefGroup(value, MinOf(RefMatches(value)))}

\* a faulty variant of FindSchemaReferences: only a reference at the top of
\* the definition is seen
FindSchemaReferencesTop(schema_obj) ==
    IF IsDict(schema_obj) /\ HasKey(schema_obj, "$ref") /\ IsStr(GetItem(schema_obj, "$ref"))
    THEN SearchRefName(GetItem(schema_obj, "$ref").s)
    ELSE {}

RECURSIVE FindSchemaReferences(_)
\* _find_schema_references(schema_obj)
FindSchemaReferences(schema_obj) ==
    IF IsDict(schema_obj)
    THEN UNION { IF schema_obj.v[i].key = "$ref" /\ IsStr(schema_obj.v[i].val)
                 THEN SearchRefName(schema_obj.v[i].val.s)
                 ELSE FindSchemaReferences(schema_obj.v[i].val) :
                 i \in 1..Len(schema_obj.v) }
    ELSE IF IsList(schema_obj)
    THEN UNION { FindSchemaReferences(schema_obj.v[i]) : i \in 1..Len(schema_obj.v) }
    ELSE {}

\* what a call of resolve_ref gives: the value it returns or the exception
\* it raises, and the set resolving as the call leaves it
Resolved(val, resolving) == [exc |-> "", val |-> val, resolving |-> resolving]
ResolveRaised(exc, resolving) == [exc |-> exc, val |-> PyNone, resolving |-> resolving]

RECURSIVE MergeSiblings(_, _, _)
\* result = {**resolved}; then result[key] = value for every key of
\* schema_obj but '$ref'
MergeSiblings(result, es, i) ==
    IF i > Len(es) THEN result
    ELSE MergeSiblings(IF es[i].key # "$ref" THEN DictSet(result, es[i].key, es[i].val)
                       ELSE result,
                       es, i + 1)

\* a faulty variant of ExpandRef: the keys next to the reference are dropped
ExpandRefOnly(schema_obj, ref_type, r) ==
    IF r.exc # "" THEN r
    ELSE IF ~IsDict(r.val) THEN ResolveRaised("TypeError", r.resolving \ {ref_type})
    ELSE Resolved(r.val, r.resolving \ {ref_type})

\* a faulty variant of ExpandRef: ref_type stays in resolving
ExpandRefNoDiscard(schema_obj, ref_type, r) ==
    IF r.exc # "" THEN r
    ELSE IF ~IsDict(r.val) THEN ResolveRaised("TypeError", r.resolving)
    ELSE Resolved(PyDict(MergeSiblings(r.val.v, schema_obj.v, 1)), r.resolving)

\* the lines after the recursive call on the referenced definition, r
\* being what that call gave: resolving.discard(ref_type), the merge of the
\* sibling keys, return result
ExpandRef(schema_obj, ref_type, r) ==
    IF r.exc # "" THEN r
    ELSE IF ~IsDict(r.val) THEN ResolveRaised("TypeError", r.resolving \ {ref_type})
    ELSE Resolved(PyDict(MergeSiblings(r.val.v, schema_obj.v, 1)), r.resolving \ {ref_type})

\* ref_path.replace("#/definitions/", "")
RefTypeOf(ref_path) == StrReplace(ref_path, DefsMarker, "")

\* a faulty variant of IsCycle: every reference counts as circular
IsCycleAlways(ref_type, resolving) == TRUE

\* ref_type in resolving
IsCycle(ref_type, resolving) == ref_type \in resolving

RECURSIVE ResolveRef(_, _, _)
RECURSIVE ResolveEach(_, _, _, _)

\* the values after the first, r being what the first gave
ResolveRest(r, xs, i, definitions) ==
    IF r.exc # "" THEN [exc |-> r.exc, vals |-> <<>>, resolving |-> r.resolving]
    ELSE [ResolveEach(xs, i + 1, definitions, r.resolving) EXCEPT
             !.vals = <<r.val>> \o @]

\* resolve_ref of xs[i], xs[i + 1], ... one after the other, as a
\* comprehension calls it
ResolveEach(xs, i, definitions, resolving) ==
    IF i > Len(xs) THEN [exc |-> "", vals |-> <<>>, resolving |-> resolving]
    ELSE ResolveRest(ResolveRef(xs[i], definitions, resolving), xs, i, definitions)

\* {k: resolve_ref(v, ...) for k, v in schema_obj.items()}
ResolvedDict(schema_obj, rs) ==
    IF rs.exc # "" THEN ResolveRaised(rs.exc, rs.resolving)
    ELSE Resolved(PyDict([i \in 1..Len(schema_obj.v) |->
                             Entry(schema_obj.v[i].key, rs.vals[i])]),
                  rs.resolving)

\* [resolve_ref(item, ...) for item in schema_obj]
ResolvedList(rs) ==
    IF rs.exc # "" THEN ResolveRaised(rs.exc, rs.resolving)
    ELSE Resolved(PyList(rs.vals), rs.resolving)

\* the branch of a dict with a '$ref' key whose value is the str ref_path
ResolveRefNode(schema_obj, ref_path, definitions, resolving) ==
    IF ~StartsWith(ref_path, DefsMarker) THEN Resolved(schema_obj, resolving)
    ELSE IF IsCycle(RefTypeOf(ref_path), resolving) THEN Resolved(schema_obj, resolving)
    ELSE IF ~HasKey(definitions, RefTypeOf(ref_path)) THEN Resolved(schema_obj, resolving)
    ELSE ExpandRef(schema_obj, RefTypeOf(ref_path),
                   ResolveRef(GetItem(definitions, RefTypeOf(ref_path)), definitions,
                              resolving \cup {RefTypeOf(ref_path)}))

\* resolve_ref(schema_obj, definitions, resolving); the one set resolving
\* is shared by the whole recursion
ResolveRef(schema_obj, definitions, resolving) ==
    IF IsDict(schema_obj)
    THEN (IF HasKey(schema_obj, "$ref")
          THEN (IF ~IsStr(GetItem(schema_obj, "$ref"))
                THEN ResolveRaised("AttributeError", resolving)
                ELSE ResolveRefNode(schema_obj, GetItem(schema_obj, "$ref").s,
                                    definitions, resolving))
          ELSE ResolvedDict(schema_obj,
                            ResolveEach([i \in 1..Len(schema_obj.v) |-> schema_obj.v[i].val],
                                        1, definitions, resolving)))
    ELSE IF IsList(schema_obj)
    THEN ResolvedList(ResolveEach(schema_obj.v, 1, definitions, resolving))
    ELSE Resolved(schema_obj, resolving)

(***************************************************************************)
(* Input documents: json.dumps of bounded JSON values                      *)
(***************************************************************************)
RECURSIVE JsonDumps(_)
RECURSIVE DumpItems(_, _)
RECURSIVE DumpEntries(_, _)

DumpItems(xs, i) ==
    IF i > Len(xs) THEN ""
    ELSE (IF i > 1 THEN ", " ELSE "") \o JsonDumps(xs[i]) \o DumpItems(xs, i + 1)

DumpEntries(es, i) ==
    IF i > Len(es) THEN ""
    ELSE (IF i > 1 THEN ", " ELSE "") \o "\"" \o es[i].key \o "\": "
         \o JsonDumps(es[i].val) \o DumpEntries(es, i + 1)

JsonDumps(x) ==
    CASE x.k = "none" -> "null"
      [] x.k = "bool" -> (IF x.s = "True" THEN "true" ELSE "false")
      [] x.k = "int"  -> x.s
      [] x.k = "str"  -> "\"" \o x.s \o "\""
      [] x.k = "list" -> "[" \o DumpItems(x.v, 1) \o "]"
      [] OTHER        -> "{" \o DumpEntries(x.v, 1) \o "}"

\* the entry sequences that hold key with one of vals, or nothing
Opt(key, vals) == {<<>>} \cup { <<Entry(key, v)>> : v \in vals }

One(key, vals) == { <<Entry(key, v)>> : v \in vals }

MaxListLen == 2

ListsOf(S) == UNION { [1..n -> S] : n \in 0..MaxListLen }

(***************************************************************************)
(* The files the code reads                                                *)
(***************************************************************************)
StrList(names) == PyList([i \in 1..Len(names) |-> PyStr(names[i])])

ObjectDef(required, properties) ==
    PyDict(<<Entry("type", PyStr("object")), Entry("required", StrList(required)),
             Entry("properties", PyDict(properties))>>)

TypeIs(ty) == PyDict(<<Entry("type", PyStr(ty))>>)
RefTo(name) == PyDict(<<Entry("$ref", PyStr(DefsMarker \o name))>>)

\* full_schema_model/full_schema.json (both LEAPDO_SCHEMA_PATH_ABS and
\* APP_SCHEMA_PATH_ABS name it)
SchemaDocument ==
    PyDict(<<
      Entry("$id", PyStr("full_schema.json")),
      Entry("definitions", PyDict(<<
        Entry("WebAppProps",  ObjectDef(<<"appType", "name">>,
                                <<Entry("name", TypeIs("string"))>>)),
        Entry("WebPageProps", ObjectDef(<<"title", "slug">>,
                                <<Entry("title", TypeIs("string")),
                                  Entry("slug", TypeIs("string"))>>)),
        Entry("BlogPostPageProps", ObjectDef(<<"title", "slug", "pageType">>, <<>>)),
        Entry("BlogMainPageProps", ObjectDef(<<"title", "slug", "pageType">>, <<>>)),
        Entry("ThemeProps",   ObjectDef(<<"light", "dark">>,
                                <<Entry("light", TypeIs("object")),
                                  Entry("dark", TypeIs("object"))>>)),
        Entry("CardProps",    ObjectDef(<<"componentType">>,
                                <<Entry("title", TypeIs("string")),
                                  Entry("child", RefTo("ButtonProps")),
                                  Entry("items", PyDict(<<Entry("type", PyStr("array")),
                                                          Entry("items", RefTo("ButtonProps"))>>))>>)),
        Entry("ButtonProps",  ObjectDef(<<"componentType", "label">>,
                                <<Entry("label", TypeIs("string"))>>)),
        Entry("IconProps",    ObjectDef(<<"componentType", "name">>,
                                <<Entry("name", TypeIs("string"))>>))
      >>))
    >>)

SchemaFile == File(SchemaDocument)

\* icons/lucide_icons.txt
IconsFile == File("home\nstar\nchevron-right\n")

\* fonts/google_fonts.json
FontsFile ==
    File(PyDict(<<Entry("items", PyList(<<
        PyDict(<<Entry("family", PyStr("Roboto")),
                 Entry("variants", StrList(<<"regular", "italic", "700">>))>>),
        PyDict(<<Entry("family", PyStr("Open Sans")),
                 Entry("variants", StrList(<<"regular", "600">>))>>)
    >>))>>))

Files(schema, icons, fonts) == [schema |-> schema, icons |-> icons, fonts |-> fonts]

AllFiles == Files(SchemaFile, IconsFile, FontsFile)

(***************************************************************************)
(* Bounded inputs                                                          *)
(***************************************************************************)
S(txt) == PyStr(txt)

\* roots that exercise the detection rules
DetectRoots ==
    { PyDict(a \o t \o pt \o ty \o c \o l) :
        a  \in Opt("appType", {S("WebAppProps"), S("DashboardProps")}),
        t  \in {<<>>, <<Entry("title", S("Home"))>>,
                <<Entry("title", S("Home")), Entry("slug", S("home"))>>},
        pt \in Opt("pageType", {S("BlogPostPageProps"), S("LegacyPage"), S("")}),
        ty \in Opt("type", {S("WebPageProps"), S("LegacyPage")}),
        c  \in Opt("componentType", {S("ButtonProps")}),
        l  \in {<<>>, <<Entry("light", PyDict(<<>>))>>,
                <<Entry("light", PyDict(<<>>)), Entry("dark", PyDict(<<>>))>>} }

\* values of a componentType key
Tags == {S("ButtonProps"), S("IconProps"), S("GhostProps"), PyInt("5"), PyList(<<>>)}

IconNames == {S("home"), S("Home"), S("not-a-real-icon-xyz")}

Leaves ==
    {S("x"), PyDict(<<>>)}
    \cup { PyDict(<<Entry("componentType", tag)>>) : tag \in Tags }
    \cup { PyDict(<<Entry("componentType", S("IconProps")), Entry("name", n)>>) :
             n \in IconNames }

ChildKeys == {"child", "fields", "actions", "root", "items"}

\* the elements of the lists of the documents
ListItems ==
    {S("x"),
     PyDict(<<Entry("componentType", S("ButtonProps"))>>),
     PyDict(<<Entry("componentType", S("GhostProps"))>>),
     PyDict(<<Entry("componentType", S("IconProps")), Entry("name", S("not-a-real-icon-xyz"))>>)}

Inner ==
    Leaves
    \cup { PyList(xs) : xs \in ListsOf(ListItems) }
    \cup { PyDict(tag \o <<Entry(key, leaf)>>) :
             tag \in Opt("componentType", Tags), key \in ChildKeys, leaf \in Leaves }

\* roots that exercise the walk
WalkRoots ==
    { PyDict(<<Entry("componentType", S("CardProps")), Entry(key, sub)>>) :
        key \in ChildKeys, sub \in Inner }

\* roots with several structural faults at once
FaultRoots ==
    { PyDict(<<Entry("componentType", S("CardProps")), Entry("title", t),
               Entry("child", c), Entry("items", PyList(xs))>>) :
        t \in {S("T"), PyInt("5")},
        c \in {S("x"), PyDict(<<Entry("componentType", S("ButtonProps"))>>)},
        xs \in ListsOf({S("x"), PyDict(<<Entry("componentType", S("ButtonProps"))>>)}) }

\* roots of the application type with a structural fault, a fonts entry
\* without its fields and a nested component
FaultyApps ==
    { PyDict(<<Entry("appType", S("WebAppProps"))>> \o n
             \o <<Entry("fonts", PyDict(<<Entry("heading", PyDict(<<>>))>>))>> \o c) :
        n \in Opt("name", {PyInt("5")}),
        c \in Opt("child", {PyDict(<<Entry("componentType", S("GhostProps"))>>)}) }

\* roots of the icon-component type
IconRoots ==
    { PyDict(<<Entry("componentType", S("IconProps")), Entry("name", n)>>) : n \in IconNames }
    \cup { PyDict(<<Entry("componentType", S("ButtonProps")), Entry("label", S("Go")),
                    Entry("icon", PyDict(<<Entry("componentType", S("IconProps")),
                                           Entry("name", n)>>))>>) : n \in IconNames }

Colors ==
    {S("0 0% 100%"), S("0 0% 0%"), S("0 0% 55%"), S("0 0% 60%"), S("#ffffff"), S("#000"),
     S("#12"), PyInt("5"), PyNone, PyList(<<>>)}

ChartColors == {S("#ff0000"), S("#fe0000"), S("#00ff00"), S("zzzzzz"), PyInt("5")}

FontUrls ==
    {S("https://fonts.googleapis.com/css2?family=Open+Sans"),
     S("https://fonts.googleapis.com/css2?family=Roboto"),
     S("http://example.com/css?family=Roboto")}

WebApp(entries) ==
    PyDict(<<Entry("appType", S("WebAppProps")), Entry("name", S("App"))>> \o entries)

\* roots of the application type with a theme or a fonts mapping
ThemeRoots ==
    { WebApp(<<Entry("theme", PyDict(<<Entry(p,
          PyDict(<<Entry("background", bg), Entry("foreground", fg)>>))>>))>>) :
        p \in {"light", "dark"}, bg \in Colors, fg \in Colors }
    \cup { WebApp(<<Entry("theme", PyDict(<<Entry("charts",
          PyDict(<<Entry("chart-1", c1), Entry("chart-2", c2)>>))>>))>>) :
        c1 \in ChartColors, c2 \in ChartColors }
    \cup { WebApp(<<Entry("fonts", PyDict(<<Entry("heading", PyDict(f \o v \o u))>>))>>) :
        f \in Opt("family", {S("Roboto"), S("Open Sans"), S("Comic Papyrus")}),
        v \in Opt("variant", {S("regular"), S("bold"), S("600")}),
        u \in Opt("url", FontUrls) }

\* HSL colours 30, 70 and 100 lightness points apart, and a hex colour
PairColorValues == {S("0 0% 100%"), S("0 0% 70%"), S("0 0% 0%"), S("#000")}

\* the pairs of palette keys the theme check compares with the 40-point rule
PairKeys ==
    {<<"background", "primary">>, <<"primary", "primary-foreground">>,
     <<"background", "accent">>}

\* roots of the application type with one pair of colours in one palette
PaletteRoots ==
    { WebApp(<<Entry("theme", PyDict(<<Entry(p,
          PyDict(<<Entry(k[1], c1), Entry(k[2], c2)>>))>>))>>) :
        p \in {"light", "dark"}, k \in PairKeys,
        c1 \in PairColorValues, c2 \in PairColorValues }

\* the markdown fence; TLA+ strings cannot hold a backquote, so "~" stands
\* for it in every text of the model
Fence == "~~~"

\* a few documents for the variations of the text and of the files
CoreRoots ==
    { PyDict(<<Entry("title", S("Home")), Entry("slug", S("home"))>>),
      PyDict(<<Entry("componentType", S("ButtonProps")), Entry("label", PyInt("5"))>>),
      WebApp(<<>>) }

Fenced(text) == Fence \o "json\n" \o text \o "\n" \o Fence

\* the text without its last character
Truncated(text) == SubSeq(text, 1, Len(text) - 1)

\* the text of an object with a comma before its closing brace
TrailingComma(text) == SubSeq(text, 1, Len(text) - 1) \o ",}"

TextsOf(doc) ==
    {JsonDumps(doc), Fenced(JsonDumps(doc)), Truncated(JsonDumps(doc)),
     TrailingComma(JsonDumps(doc)), Fenced(TrailingComma(JsonDumps(doc)))}

OtherTexts == {"", "not json", "[1, 2]", "\"x\"", "12", "null", "{} {}"}

Input(text, target, files) == [text |-> text, target |-> target, files |-> files]

NoSchemaFiles == Files(NoFile, IconsFile, FontsFile)
NoDataFiles == Files(SchemaFile, NoFile, NoFile)

Inputs ==
    { Input(JsonDumps(d), t, AllFiles) :
        d \in DetectRoots, t \in {"WebPageProps", "WebAppProps"} }
    \cup { Input(JsonDumps(d), "CardProps", AllFiles) : d \in WalkRoots \cup FaultRoots }
    \cup { Input(JsonDumps(d), t, AllFiles) :
        d \in { w \in WalkRoots : HasKey(w, "root") }, t \in {"IconProps", "GhostProps"} }
    \cup { Input(JsonDumps(d), t, AllFiles) :
        d \in IconRoots, t \in {"IconProps", "ButtonProps"} }
    \cup { Input(JsonDumps(d), t, AllFiles) :
        d \in ThemeRoots \cup PaletteRoots \cup FaultyApps, t \in {"WebAppProps", "WebPageProps"} }
    \cup { Input(text, t, f) :
        text \in (UNION { TextsOf(d) : d \in CoreRoots }) \cup OtherTexts,
        t \in {"WebAppProps", "WebPageProps", "IconProps"},
        f \in {AllFiles, NoSchemaFiles, NoDataFiles} }

(***************************************************************************)
(* Bounded schema documents for get_exepad_schema                          *)
(***************************************************************************)
Described(schema, text) == PyDict(schema.v \o <<Entry("description", S(text))>>)

Props(entries) == PyDict(<<Entry("type", S("object")), Entry("properties", PyDict(entries))>>)

TypeNames == {"A", "B", "C", "Missing"}

\* definitions with one reference, in each place a reference can sit
OneRefShapes(x) ==
    { RefTo(x),
      Described(RefTo(x), "local"),
      Props(<<Entry("x", RefTo(x))>>),
      PyDict(<<Entry("anyOf", PyList(<<RefTo(x), TypeIs("null")>>))>>) }

\* definitions with two references
TwoRefShapes ==
    { Props(<<Entry("x", RefTo(r[1])), Entry("y", RefTo(r[2]))>>) :
        r \in {<<"A", "A">>, <<"B", "B">>, <<"B", "C">>, <<"A", "B">>} }
    \cup { PyDict(<<Entry("$ref", S(DefsMarker \o r[1])),
                    Entry("properties", PyDict(<<Entry("x", RefTo(r[2]))>>))>>) :
        r \in {<<"B", "C">>, <<"B", "A">>, <<"C", "C">>} }

\* definitions without a local reference: plain, a reference into another
\* document, a property named '$ref', a boolean schema
PlainShapes ==
    { TypeIs("string"),
      Described(TypeIs("string"), "remote"),
      PyDict(<<Entry("$ref", S("other.json" \o DefsMarker \o "A"))>>),
      Props(<<Entry("$ref", TypeIs("string"))>>),
      PyBool(TRUE) }

\* a definition with a key named as the tag of a returned schema
NamedShape ==
    PyDict(<<Entry("type", S("object")), Entry("schemaTypeName", S("Zed")),
             Entry("properties", PyDict(<<Entry("x", RefTo("B"))>>))>>)

ShapesOfA ==
    PlainShapes \cup TwoRefShapes \cup {NamedShape} \cup UNION { OneRefShapes(x) : x \in TypeNames }

ShapesOfB ==
    { TypeIs("string"), Described(TypeIs("string"), "remote"), PyBool(TRUE),
      Props(<<Entry("x", RefTo("A")), Entry("y", RefTo("A"))>>) }
    \cup OneRefShapes("A") \cup { RefTo("C"), Props(<<Entry("x", RefTo("B"))>>) }

ShapesOfC == { Described(TypeIs("string"), "remote"), RefTo("A"), Props(<<Entry("x", RefTo("C"))>>) }

\* full_schema.json documents with the definitions A, B and C
SchemaDocuments ==
    { PyDict(<<Entry("$id", S("full_schema.json")),
               Entry("definitions", PyDict(<<Entry("A", a), Entry("B", b), Entry("C", c)>>))>>) :
        a \in ShapesOfA, b \in ShapesOfB, c \in ShapesOfC }

\* the request lists
SchemaLists == { <<"A">>, <<"B", "A">>, <<"C", "Zed">> }

SchemaFiles ==
    { File(d) : d \in SchemaDocuments }
    \cup { NoFile, File(PyDict(<<Entry("$id", S("full_schema.json"))>>)) }

(***************************************************************************)
(* State                                                                   *)
(***************************************************************************)
VARIABLES
    app_config_str,        \* argument: the text to validate
    target_type,           \* argument: the expected root type
    files,                 \* the files on disk
    pc,                    \* position in validate_app_config
    app_config,            \* the decoded document
    errors,                \* the error list under construction
    target_type_detected,  \* the detected root type
    app_defs,              \* app_schema["definitions"]
    comp_defs,             \* comp_schema["definitions"]
    stack,                 \* pending _recurse calls, next one first
    result,                \* the returned report
    exc,                   \* the exception that left validate_app_config
    LUCIDE_ICONS_SET,      \* module global _LUCIDE_ICONS_SET
    GOOGLE_FONTS_DATA,     \* module global _GOOGLE_FONTS_DATA
    trace,                 \* history: the calls made during the walk
    calls,                 \* history: the outcomes of the earlier calls
    loads,                 \* history: how often each table file was opened
    schema_list,           \* get_exepad_schema argument: the requested types
    include_dependencies,  \* get_exepad_schema argument
    spc,                   \* position in get_exepad_schema
    schema_dict,           \* the collected schemas, in insertion order
    visited_types,         \* the types collect_schema_and_dependencies has seen
    loops,                 \* the pending for loops over types, innermost first
    schema_result          \* what get_exepad_schema returns

\* the state of get_exepad_schema
schema_vars == <<schema_list, include_dependencies, spc, schema_dict, visited_types,
                 loops, schema_result>>

vars == <<app_config_str, target_type, files, pc, app_config, errors,
          target_type_detected, app_defs, comp_defs, stack, result, exc,
          LUCIDE_ICONS_SET, GOOGLE_FONTS_DATA, trace, calls, loads, schema_vars>>

NoResult == [returned |-> FALSE, valid |-> FALSE, errors |-> <<>>]
Report(valid, errs) == [returned |-> TRUE, valid |-> valid, errors |-> errs]

Frame(node, loc, parent_key, path) ==
    [node |-> node, loc |-> loc, parent_key |-> parent_key, path |-> path]

Event(fn, path, loc, arg) == [fn |-> fn, path |-> path, loc |-> loc, arg |-> arg]

NoSchemas == [status |-> "", schemas |-> <<>>, error_message |-> ""]

\* get_exepad_schema is not called
SchemaIdle ==
    /\ schema_list = <<>>
    /\ include_dependencies = TRUE
    /\ spc = "idle"
    /\ schema_dict = <<>>
    /\ visited_types = {}
    /\ loops = <<>>
    /\ schema_result = NoSchemas

\* the locals of validate_app_config at its entry, in a fresh process
FirstCall ==
    /\ pc = "parse"
    /\ app_config = PyStr("")
    /\ errors = <<>>
    /\ target_type_detected = PyNone
    /\ app_defs = PyDict(<<>>)
    /\ comp_defs = PyDict(<<>>)
    /\ stack = <<>>
    /\ result = NoResult
    /\ exc = ""
    /\ LUCIDE_ICONS_SET = NotLoaded
    /\ GOOGLE_FONTS_DATA = NotLoaded
    /\ trace = <<>>
    /\ loads = [icons |-> 0, fonts |-> 0]

Init ==
    /\ \E in \in Inputs :
          /\ app_config_str = in.text
          /\ target_type = in.target
          /\ files = in.files
    /\ FirstCall
    /\ calls = {}
    /\ SchemaIdle

\* a faulty variant of CleanStr: the closing fence stays
CleanStrOpeningOnly(text) == StrStrip(StrRemoveAll(text, Fence \o "json"))

(***************************************************************************)
(* validate_app_config, step 1 and 2: strip the fences, decode             *)
(***************************************************************************)
CleanStr(text) == StrStrip(StrRemoveAll(StrRemoveAll(text, Fence \o "json"), Fence))

DecodeErrorText(clean, r) ==
    r.msg \o " at line " \o ToString(ErrLineno(clean, r.nxt)) \o ", column "
    \o ToString(ErrColno(clean, r.nxt)) \o "'"

\* a faulty variant of DecodeErrors: the second append is missing
DecodeErrorsFirstOnly(clean, r) == << "Invalid JSON: " \o DecodeErrorText(clean, r) >>

\* the entries appended by the except json.JSONDecodeError branch
DecodeErrors(clean, r) ==
    << "Invalid JSON: " \o DecodeErrorText(clean, r),
       "\n        - The JSON you provided cannot be decoded. "
       \o "\n        - Rebuild the JSON from scratch. "
       \o "\n        - Forget about the previous response and generate a new response for the last request again."
       \o "\n        ### Validation Errors:\n        " \o DecodeErrorText(clean, r)
       \o "\n        " >>

\* json.loads(clean_str)
Decoded(text) == JsonLoads(CleanStr(text))

\* json.loads succeeds
ParseJson ==
    /\ pc = "parse"
    /\ Decoded(app_config_str).ok
    /\ app_config' = Decoded(app_config_str).val
    /\ pc' = "check_root"
    /\ UNCHANGED <<app_config_str, target_type, files, errors, target_type_detected,
                   app_defs, comp_defs, stack, result, exc, LUCIDE_ICONS_SET,
                   GOOGLE_FONTS_DATA, trace>>
    /\ UNCHANGED <<calls, schema_vars, loads>>

\* json.loads raises JSONDecodeError e: return at once
ParseFailed(e) ==
    /\ ~e.ok
    /\ errors' = errors \o DecodeErrors(CleanStr(app_config_str), e)
    /\ result' = Report(FALSE, errors \o DecodeErrors(CleanStr(app_config_str), e))

ParseFailure ==
    /\ pc = "parse"
    /\ ParseFailed(Decoded(app_config_str))
    /\ pc' = "done"
    /\ UNCHANGED <<app_config_str, target_type, files, app_config, target_type_detected,
                   app_defs, comp_defs, stack, exc, LUCIDE_ICONS_SET,
                   GOOGLE_FONTS_DATA, trace>>
    /\ UNCHANGED <<calls, schema_vars, loads>>

\* the root is not a dict: return at once
RejectNonObject ==
    /\ pc = "check_root"
    /\ ~IsDict(app_config)
    /\ LET errs == Append(errors, "Root JSON must be an object. Detected type: "
                                  \o PyTypeStr(app_config))
       IN  /\ errors' = errs
           /\ result' = Report(FALSE, errs)
    /\ pc' = "done"
    /\ UNCHANGED <<app_config_str, target_type, files, app_config, target_type_detected,
                   app_defs, comp_defs, stack, exc, LUCIDE_ICONS_SET,
                   GOOGLE_FONTS_DATA, trace>>
    /\ UNCHANGED <<calls, schema_vars, loads>>

(***************************************************************************)
(* step 3: detect the root type                                            *)
(***************************************************************************)
\* app_config.get("pageType") or app_config.get("type")
PageTypeOf(cfg) ==
    IF Truthy(DictGet(cfg, "pageType")) THEN DictGet(cfg, "pageType") ELSE DictGet(cfg, "type")

Detected(val)   == [rule |-> "type", val |-> val]
InvalidPage(val) == [rule |-> "invalid_page", val |-> val]
Undetected      == [rule |-> "none", val |-> PyNone]

\* a faulty variant of DetectType: the componentType rule is tried before
\* the title and slug rule
DetectTypeReordered(cfg) ==
    IF HasKey(cfg, "appType") THEN Detected(GetItem(cfg, "appType"))
    ELSE IF HasKey(cfg, "title") /\ HasKey(cfg, "slug")
            /\ (HasKey(cfg, "pageType") \/ HasKey(cfg, "type"))
    THEN (IF InList(PageTypeOf(cfg), PageTypes) THEN Detected(PageTypeOf(cfg))
          ELSE InvalidPage(PageTypeOf(cfg)))
    ELSE IF HasKey(cfg, "componentType") THEN Detected(GetItem(cfg, "componentType"))
    ELSE IF HasKey(cfg, "title") /\ HasKey(cfg, "slug") THEN Detected(S("WebPageProps"))
    ELSE IF HasKey(cfg, "light") /\ HasKey(cfg, "dark") THEN Detected(S("ThemeProps"))
    ELSE Undetected

\* the if/elif chain of the auto-detection
DetectType(cfg) ==
    IF HasKey(cfg, "appType") THEN Detected(GetItem(cfg, "appType"))
    ELSE IF HasKey(cfg, "title") /\ HasKey(cfg, "slug")
            /\ (HasKey(cfg, "pageType") \/ HasKey(cfg, "type"))
    THEN (IF InList(PageTypeOf(cfg), PageTypes) THEN Detected(PageTypeOf(cfg))
          ELSE InvalidPage(PageTypeOf(cfg)))
    ELSE IF HasKey(cfg, "title") /\ HasKey(cfg, "slug") THEN Detected(S("WebPageProps"))
    ELSE IF HasKey(cfg, "componentType") THEN Detected(GetItem(cfg, "componentType"))
    ELSE IF HasKey(cfg, "light") /\ HasKey(cfg, "dark") THEN Detected(S("ThemeProps"))
    ELSE Undetected

InvalidPageTypeError(page_type) ==
    "Invalid page type: '" \o PyToStr(page_type)
    \o "'. Must be one of: WebPageProps, BlogPostPageProps, BlogMainPageProps"

CannotDetectError == "Cannot detect JSON object type. Check the JSON structure and try again."

MismatchError(detected, target) ==
    "Invalid object type detected: (" \o PyToStr(detected)
    \o ") does not match target type (" \o target \o "). You must generate a "
    \o target \o " object."

\* target_type_detected != target_type
TypeMismatch(detected, target) == detected # S(target)

\* a type is detected; a mismatch with the expected type is recorded
DetectRootType ==
    /\ pc = "check_root"
    /\ IsDict(app_config)
    /\ DetectType(app_config).rule = "type"
    /\ target_type_detected' = DetectType(app_config).val
    /\ errors' = IF TypeMismatch(DetectType(app_config).val, target_type)
                 THEN Append(errors, MismatchError(DetectType(app_config).val, target_type))
                 ELSE errors
    /\ pc' = "load_schemas"
    /\ UNCHANGED <<app_config_str, target_type, files, app_config, app_defs, comp_defs,
                   stack, result, exc, LUCIDE_ICONS_SET, GOOGLE_FONTS_DATA, trace>>
    /\ UNCHANGED <<calls, schema_vars, loads>>

\* the page type is not a recognised one: return a fresh one-entry list
RejectPageType ==
    /\ pc = "check_root"
    /\ IsDict(app_config)
    /\ DetectType(app_config).rule = "invalid_page"
    /\ result' = Report(FALSE, <<InvalidPageTypeError(DetectType(app_config).val)>>)
    /\ pc' = "done"
    /\ UNCHANGED <<app_config_str, target_type, files, app_config, errors,
                   target_type_detected, app_defs, comp_defs, stack, exc,
                   LUCIDE_ICONS_SET, GOOGLE_FONTS_DATA, trace>>
    /\ UNCHANGED <<calls, schema_vars, loads>>

\* no rule matches: return
RejectUndetected ==
    /\ pc = "check_root"
    /\ IsDict(app_config)
    /\ DetectType(app_config).rule = "none"
    /\ errors' = Append(errors, CannotDetectError)
    /\ result' = Report(FALSE, Append(errors, CannotDetectError))
    /\ pc' = "done"
    /\ UNCHANGED <<app_config_str, target_type, files, app_config, target_type_detected,
                   app_defs, comp_defs, stack, exc, LUCIDE_ICONS_SET,
                   GOOGLE_FONTS_DATA, trace>>
    /\ UNCHANGED <<calls, schema_vars, loads>>

(***************************************************************************)
(* step 4: load the schemas                                                *)
(***************************************************************************)
\* schema.get("definitions", {}) of a loaded schema file
DefinitionsOf(file) ==
    IF HasKey(file.content, "definitions") THEN GetItem(file.content, "definitions")
    ELSE PyDict(<<>>)

LoadSchemas ==
    /\ pc = "load_schemas"
    /\ files.schema.exists
    /\ comp_defs' = DefinitionsOf(files.schema)
    /\ app_defs' = DefinitionsOf(files.schema)
    /\ stack' = <<Frame(app_config, "root", "", <<>>)>>
    /\ pc' = "walk"
    /\ UNCHANGED <<app_config_str, target_type, files, app_config, errors,
                   target_type_detected, result, exc, LUCIDE_ICONS_SET,
                   GOOGLE_FONTS_DATA, trace>>
    /\ UNCHANGED <<calls, schema_vars, loads>>

\* the path handed to open(), without the directory of the script
LEAPDO_SCHEMA_PATH_ABS == "../full_schema_model/full_schema.json"

\* open() raises FileNotFoundError: return a fresh one-entry list
SchemaFileNotFound ==
    /\ pc = "load_schemas"
    /\ ~files.schema.exists
    /\ result' = Report(FALSE, <<"Schema file not found: " \o LEAPDO_SCHEMA_PATH_ABS>>)
    /\ pc' = "done"
    /\ UNCHANGED <<app_config_str, target_type, files, app_config, errors,
                   target_type_detected, app_defs, comp_defs, stack, exc,
                   LUCIDE_ICONS_SET, GOOGLE_FONTS_DATA, trace>>
    /\ UNCHANGED <<calls, schema_vars, loads>>

(***************************************************************************)
(* step 5: _recurse, one call per step, in the order of the recursion      *)
(***************************************************************************)
\* x in SKIP_VALIDATION_COMPONENTS
InSkipList(x) == InList(x, SKIP_VALIDATION_COMPONENTS)

\* the node is returned from at once
SkippedByParent(f) == f.parent_key \in SkippedParentKeys

\* the branch "if loc == 'root'"
IsRootLoc(f) == f.loc = "root"

\* the comp_type _recurse passes to _validate_inst, as a sequence of zero
\* or one value
InstCalls(f, target) ==
    IF IsRootLoc(f)
    THEN (IF ~InSkipList(S(target)) THEN <<S(target)>> ELSE <<>>)
    ELSE IF IsDict(f.node) /\ HasKey(f.node, "componentType")
            /\ ~InSkipList(GetItem(f.node, "componentType"))
    THEN <<GetItem(f.node, "componentType")>>
    ELSE <<>>

\* the fonts and theme checks of the root branch run
RootChecks(f, target) == IsRootLoc(f) /\ target = "WebAppProps" /\ IsDict(f.node)

\* the calls of _recurse in the loops over the children
ChildFrames(f) ==
    IF IsDict(f.node)
    THEN [i \in 1..Len(f.node.v) |->
            Frame(f.node.v[i].val,
                  IF f.loc # "root" THEN f.loc \o "." \o f.node.v[i].key
                                    ELSE f.node.v[i].key,
                  f.node.v[i].key,
                  Append(f.path, S(f.node.v[i].key)))]
    ELSE IF IsList(f.node)
    THEN [i \in 1..Len(f.node.v) |->
            Frame(f.node.v[i], f.loc \o "[" \o ToString(i - 1) \o "]", f.parent_key,
                  Append(f.path, PyInt(ToString(i - 1))))]
    ELSE <<>>

\* what the validation part of one _recurse call appends or raises
Dispatch(f, target, adefs, cdefs, icons, fonts) ==
    Then(IF InstCalls(f, target) # <<>>
         THEN ValidateInst(f.node, InstCalls(f, target)[1], f.loc, adefs, cdefs, icons)
         ELSE Done(<<>>),
         IF RootChecks(f, target)
         THEN Then(ValidateWebappFonts(f.node, f.loc, fonts),
                   ValidateWebappTheme(f.node, f.loc, fonts))
         ELSE Done(<<>>))

\* _validate_inst reaches validate_single_icon_name
IconsRead(f, target, adefs, cdefs) ==
    /\ InstCalls(f, target) # <<>>
    /\ Hashable(InstCalls(f, target)[1])
    /\ Declared(InstCalls(f, target)[1], adefs) \/ Declared(InstCalls(f, target)[1], cdefs)
    /\ IconCheckApplies(f.node, InstCalls(f, target)[1])

\* the root checks reach _get_google_fonts_data: in _validate_webapp_fonts,
\* or in the fonts check that ends _validate_webapp_theme.  out is the
\* outcome of the call; at the root only _validate_webapp_theme can raise
FontsRead(f, target, out) ==
    /\ RootChecks(f, target)
    /\ \/ FontsDataRead(f.node)
       \/ /\ IsDict(ThemeOf(f.node))
          /\ out.exc = ""
          /\ FontsDataRead(ThemeOf(f.node))

\* the calls this _recurse call makes, for the history
Events(f, target) ==
    <<Event("_recurse", f.path, f.loc, S(f.parent_key))>>
    \o (IF SkippedByParent(f) THEN <<>>
        ELSE (IF InstCalls(f, target) # <<>>
              THEN <<Event("_validate_inst", f.path, f.loc, InstCalls(f, target)[1])>>
              ELSE <<>>)
             \o (IF RootChecks(f, target)
                 THEN <<Event("_validate_webapp_fonts", f.path, f.loc, PyNone),
                        Event("_validate_webapp_theme", f.path, f.loc, PyNone)>>
                 ELSE <<>>))

\* the count of the opens after a call that opened the icons file, the fonts
\* file, both or none
Opened(icons_file, fonts_file) ==
    [icons |-> loads.icons + (IF icons_file THEN 1 ELSE 0),
     fonts |-> loads.fonts + (IF fonts_file THEN 1 ELSE 0)]

\* the body of _recurse for the call f, out being what its validation part
\* appends or raises
RecurseCall(f, icons, fonts, out) ==
    /\ trace' = trace \o Events(f, target_type)
    /\ IF SkippedByParent(f)
       THEN /\ stack' = Tail(stack)
            /\ UNCHANGED <<errors, pc, exc, LUCIDE_ICONS_SET, GOOGLE_FONTS_DATA, loads>>
       ELSE /\ LUCIDE_ICONS_SET' =
                   IF IconsRead(f, target_type, app_defs, comp_defs)
                   THEN icons ELSE LUCIDE_ICONS_SET
            /\ GOOGLE_FONTS_DATA' =
                   IF FontsRead(f, target_type, out) THEN fonts ELSE GOOGLE_FONTS_DATA
            /\ loads' = Opened(IconsRead(f, target_type, app_defs, comp_defs)
                                  /\ CacheIsNone(LUCIDE_ICONS_SET),
                               FontsRead(f, target_type, out) /\ CacheIsNone(GOOGLE_FONTS_DATA))
            /\ IF out.exc # ""
               THEN /\ pc' = "raised"
                    /\ exc' = out.exc
                    /\ UNCHANGED <<errors, stack>>
               ELSE /\ errors' = errors \o out.errs
                    /\ stack' = ChildFrames(f) \o Tail(stack)
                    /\ UNCHANGED <<pc, exc>>

\* the call f with the caches as _get_lucide_icons_set and
\* _get_google_fonts_data return them
RecurseWith(f, icons, fonts) ==
    RecurseCall(f, icons, fonts,
                Dispatch(f, target_type, app_defs, comp_defs, icons.data, fonts.data))

\* one call of _recurse up to its loops over the children
Recurse ==
    /\ pc = "walk"
    /\ stack # <<>>
    /\ RecurseWith(Head(stack), GetLucideIconsSet(LUCIDE_ICONS_SET, files.icons),
                   GetGoogleFontsData(GOOGLE_FONTS_DATA, files.fonts))
    /\ UNCHANGED <<app_config_str, target_type, files, app_config, target_type_detected,
                   app_defs, comp_defs, result>>
    /\ UNCHANGED <<calls, schema_vars>>

\* a faulty variant of IsValid: an off-by-one comparison
IsValidOffByOne(errs) == Len(errs) <= 1

\* len(errors) == 0
IsValid(errs) == Len(errs) = 0

\* the walk is over: return the report
ReturnReport ==
    /\ pc = "walk"
    /\ stack = <<>>
    /\ result' = Report(IsValid(errors), errors)
    /\ pc' = "done"
    /\ UNCHANGED <<app_config_str, target_type, files, app_config, errors,
                   target_type_detected, app_defs, comp_defs, stack, exc,
                   LUCIDE_ICONS_SET, GOOGLE_FONTS_DATA, trace>>
    /\ UNCHANGED <<calls, schema_vars, loads>>

Next ==
    \/ ParseJson
    \/ ParseFailure
    \/ RejectNonObject
    \/ DetectRootType
    \/ RejectPageType
    \/ RejectUndetected
    \/ LoadSchemas
    \/ SchemaFileNotFound
    \/ Recurse
    \/ ReturnReport

Spec == Init /\ [][Next]_vars

(***************************************************************************)
(* Several calls of validate_app_config in one process: the module globals *)
(* _LUCIDE_ICONS_SET and _GOOGLE_FONTS_DATA live on from call to call      *)
(***************************************************************************)
MaxCalls == 3

FencedTight(text) == Fence \o "json" \o text \o Fence

IconDoc(name) == PyDict(<<Entry("componentType", S("IconProps")), Entry("name", S(name))>>)

FontsDoc(family) ==
    WebApp(<<Entry("fonts", PyDict(<<Entry("heading",
                PyDict(<<Entry("family", S(family)), Entry("variant", S("bold"))>>))>>))>>)

\* the texts of the calls: each with its fenced form
CallTexts ==
    LET plain == { JsonDumps(IconDoc("home")),
                   JsonDumps(PyDict(<<Entry("title", S("a" \o Fence \o "b")), Entry("slug", S("home"))>>)),
                   JsonDumps(PyDict(<<Entry("title", S("Home")), Entry("slug", S("home")),
                                             Entry("pageType", S("LegacyPage"))>>)),
                   Truncated(JsonDumps(IconDoc("home"))),
                   "[1, 2]", "{}" }
    IN  plain \cup { Fenced(t) : t \in plain }
        \cup { FencedTight(JsonDumps(IconDoc("home"))), FencedTight("{}" \o "~"), "{}" \o "~" }

FontsTexts ==
    { JsonDumps(FontsDoc("Roboto")), JsonDumps(FontsDoc("Comic Papyrus")),
      Fenced(JsonDumps(FontsDoc("Comic Papyrus"))) }

CallInputs ==
    { Input(text, "IconProps", AllFiles) : text \in CallTexts }
    \cup { Input(text, "WebAppProps", AllFiles) : text \in FontsTexts }

\* what a call returned or raised
Outcome(text, target, res, e) == [text |-> text, target |-> target, result |-> res, exc |-> e]

CallEnded == pc \in {"done", "raised"}

\* the next call: the locals start afresh, the globals and the files stay
NewCall ==
    /\ CallEnded
    /\ Cardinality(calls) < MaxCalls - 1
    /\ calls' = calls \cup {Outcome(app_config_str, target_type, result, exc)}
    /\ \E in \in CallInputs :
          /\ app_config_str' = in.text
          /\ target_type' = in.target
    /\ pc' = "parse"
    /\ app_config' = PyStr("")
    /\ errors' = <<>>
    /\ target_type_detected' = PyNone
    /\ app_defs' = PyDict(<<>>)
    /\ comp_defs' = PyDict(<<>>)
    /\ stack' = <<>>
    /\ result' = NoResult
    /\ exc' = ""
    /\ trace' = <<>>
    /\ UNCHANGED <<files, LUCIDE_ICONS_SET, GOOGLE_FONTS_DATA, loads, schema_vars>>

InitCalls ==
    /\ \E in \in CallInputs, f \in {AllFiles, NoSchemaFiles, NoDataFiles} :
          /\ app_config_str = in.text
          /\ target_type = in.target
          /\ files = f
    /\ FirstCall
    /\ calls = {}
    /\ SchemaIdle

NextCalls ==
    \/ ParseJson
    \/ ParseFailure
    \/ RejectNonObject
    \/ DetectRootType
    \/ RejectPageType
    \/ RejectUndetected
    \/ LoadSchemas
    \/ SchemaFileNotFound
    \/ Recurse
    \/ ReturnReport
    \/ NewCall

SpecCalls == InitCalls /\ [][NextCalls]_vars

(***************************************************************************)
(* full_schema_utils.py: get_exepad_schema                                 *)
(***************************************************************************)
\* the path handed to open(), without the directory of the script
FULL_SCHEMA_PATH_ABS == "../full_schema_model/full_schema.json"

SchemasReturned(schemas) == [status |-> "success", schemas |-> schemas, error_message |-> ""]
SchemasError(msg) == [status |-> "error", schemas |-> <<>>, error_message |-> msg]

\* a for loop over types: the list schema_list, walked in its order, or the
\* set referenced_types, walked in the order the set happens to have
ListLoop(types) == [ordered |-> TRUE, list |-> types, set |-> {}]
SetLoop(types) == [ordered |-> FALSE, list |-> <<>>, set |-> types]

LoopOver(loop) == IF loop.ordered THEN loop.list # <<>> ELSE loop.set # {}

\* the types a loop can hand out next
NextTypes(loop) ==
    IF loop.ordered THEN (IF loop.list = <<>> THEN {} ELSE {Head(loop.list)}) ELSE loop.set

\* the loop after it handed out schema_type
Advance(loop, schema_type) ==
    IF loop.ordered THEN ListLoop(Tail(loop.list)) ELSE SetLoop(loop.set \ {schema_type})

\* full_schema["definitions"]
FullDefinitions == GetItem(files.schema.content, "definitions")

RECURSIVE DictUpdate(_, _, _)
\* the entries of a dict display after it unpacked es[i], es[i + 1], ...
DictUpdate(acc, es, i) ==
    IF i > Len(es) THEN acc
    ELSE DictUpdate(DictSet(acc, es[i].key, es[i].val), es, i + 1)

\* {"schemaTypeName": schema_type, **resolved_schema}
SchemaWithType(schema_type, resolved_schema) ==
    PyDict(DictUpdate(<<Entry("schemaTypeName", PyStr(schema_type))>>, resolved_schema.v, 1))

\* resolve_ref(schema_def, full_schema["definitions"]) in
\* collect_schema_and_dependencies: resolving starts as a new empty set
ResolveTop(schema_type) == ResolveRef(GetItem(FullDefinitions, schema_type), FullDefinitions, {})

\* resolve_ref raised, or what it returned cannot be unpacked: the except
\* branch prints and the schema is not stored
CollectFails(r) == r.exc # "" \/ ~IsDict(r.val)

\* the try block of collect_schema_and_dependencies for a type that has a
\* definition, r being what resolve_ref gave; rest are the loops that go on
\* after the call
StoreSchema(schema_type, r, rest) ==
    IF CollectFails(r)
    THEN /\ loops' = rest
         /\ UNCHANGED schema_dict
    ELSE /\ schema_dict' = DictSet(schema_dict, schema_type, SchemaWithType(schema_type, r.val))
         /\ loops' = IF include_dependencies
                     THEN <<SetLoop(FindSchemaReferences(GetItem(FullDefinitions, schema_type)))>> \o rest
                     ELSE rest

\* collect_schema_and_dependencies(schema_type) up to its own for loop
Collect(schema_type, rest) ==
    IF schema_type \in visited_types
    THEN /\ loops' = rest
         /\ UNCHANGED <<visited_types, schema_dict>>
    ELSE /\ visited_types' = visited_types \cup {schema_type}
         /\ IF HasKey(FullDefinitions, schema_type)
            THEN StoreSchema(schema_type, ResolveTop(schema_type), rest)
            ELSE /\ loops' = rest
                 /\ UNCHANGED schema_dict

validator_vars == <<app_config_str, target_type, pc, app_config, errors,
                    target_type_detected, app_defs, comp_defs, stack, result, exc,
                    LUCIDE_ICONS_SET, GOOGLE_FONTS_DATA, trace, calls, loads>>

\* open() raises FileNotFoundError
FullSchemaNotFound ==
    /\ spc = "open"
    /\ ~files.schema.exists
    /\ schema_result' = SchemasError("Schema file not found at " \o FULL_SCHEMA_PATH_ABS)
    /\ spc' = "done"
    /\ UNCHANGED <<schema_list, include_dependencies, schema_dict, visited_types, loops,
                   files, validator_vars>>

\* the document has no "definitions" key
NoDefinitions ==
    /\ spc = "open"
    /\ files.schema.exists
    /\ ~HasKey(files.schema.content, "definitions")
    /\ schema_result' = SchemasError("No definitions found in full schema")
    /\ spc' = "done"
    /\ UNCHANGED <<schema_list, include_dependencies, schema_dict, visited_types, loops,
                   files, validator_vars>>

\* the document is read: the loop over schema_list begins
StartCollecting ==
    /\ spc = "open"
    /\ files.schema.exists
    /\ HasKey(files.schema.content, "definitions")
    /\ loops' = <<ListLoop(schema_list)>>
    /\ spc' = "collect"
    /\ UNCHANGED <<schema_list, include_dependencies, schema_dict, visited_types,
                   schema_result, files, validator_vars>>

\* the definitions map after a resolve_ref that expands the definition of
\* schema_type in place
ExpandedInPlace(schema_type) ==
    IF schema_type \notin visited_types /\ HasKey(FullDefinitions, schema_type)
       /\ ~CollectFails(ResolveTop(schema_type))
    THEN [files EXCEPT !.schema.content =
            PyDict(DictSet(@.v, "definitions",
                           PyDict(DictSet(FullDefinitions.v, schema_type,
                                          ResolveTop(schema_type).val))))]
    ELSE files

\* a faulty variant of CollectNext: resolve_ref writes what it resolved
\* into the definitions map
CollectNextInPlace ==
    /\ spc = "collect"
    /\ LoopOver(Head(loops))
    /\ \E schema_type \in NextTypes(Head(loops)) :
          /\ Collect(schema_type, <<Advance(Head(loops), schema_type)>> \o Tail(loops))
          /\ files' = ExpandedInPlace(schema_type)
    /\ UNCHANGED <<schema_list, include_dependencies, spc, schema_result, validator_vars>>

\* the innermost loop hands out a type and calls
\* collect_schema_and_dependencies with it
CollectNext ==
    /\ spc = "collect"
    /\ LoopOver(Head(loops))
    /\ \E schema_type \in NextTypes(Head(loops)) :
          Collect(schema_type, <<Advance(Head(loops), schema_type)>> \o Tail(loops))
    /\ UNCHANGED <<schema_list, include_dependencies, spc, schema_result, files,
                   validator_vars>>

\* the loop over referenced_types is over: collect_schema_and_dependencies
\* returns to the loop that called it
CollectReturn ==
    /\ spc = "collect"
    /\ Len(loops) > 1
    /\ ~LoopOver(Head(loops))
    /\ loops' = Tail(loops)
    /\ UNCHANGED <<schema_list, include_dependencies, spc, schema_dict, visited_types,
                   schema_result, files, validator_vars>>

\* x['schemaTypeName'] of a stored schema
TypeNameOf(x) == GetItem(x, "schemaTypeName")

\* the sort key (x['schemaTypeName'] not in requested_set, x['schemaTypeName'])
\* of x is less than that of y
KeyLess(x, y, requested) ==
    LET nx == TypeNameOf(x).s
        ny == TypeNameOf(y).s
    IN  \/ nx \in requested /\ ny \notin requested
        \/ (nx \in requested <=> ny \in requested) /\ StrLess(nx, ny)

RECURSIVE SortedSchemas(_, _)
\* list.sort with that key: a stable insertion of each schema in turn
SortedSchemas(xs, requested) ==
    IF xs = <<>> THEN <<>>
    ELSE LET done == SortedSchemas(SubSeq(xs, 1, Len(xs) - 1), requested)
             x == xs[Len(xs)]
             before == { i \in 1..Len(done) : ~KeyLess(x, done[i], requested) }
             n == IF before = {} THEN 0 ELSE MaxOf(before)
         IN  SubSeq(done, 1, n) \o <<x>> \o SubSeq(done, n + 1, Len(done))

\* the loop over schema_list is over: sort and return
ReturnSchemas ==
    /\ spc = "collect"
    /\ Len(loops) = 1
    /\ ~LoopOver(Head(loops))
    /\ schema_result' =
          SchemasReturned(SortedSchemas([i \in 1..Len(schema_dict) |-> schema_dict[i].val],
                                        { schema_list[i] : i \in 1..Len(schema_list) }))
    /\ spc' = "done"
    /\ UNCHANGED <<schema_list, include_dependencies, schema_dict, visited_types, loops,
                   files, validator_vars>>

\* validate_app_config is not called
ValidatorIdle ==
    /\ app_config_str = ""
    /\ target_type = ""
    /\ pc = "idle"
    /\ app_config = PyStr("")
    /\ errors = <<>>
    /\ target_type_detected = PyNone
    /\ app_defs = PyDict(<<>>)
    /\ comp_defs = PyDict(<<>>)
    /\ stack = <<>>
    /\ result = NoResult
    /\ exc = ""
    /\ LUCIDE_ICONS_SET = NotLoaded
    /\ GOOGLE_FONTS_DATA = NotLoaded
    /\ trace = <<>>
    /\ calls = {}
    /\ loads = [icons |-> 0, fonts |-> 0]

InitSchema ==
    /\ \E f \in SchemaFiles : files = Files(f, NoFile, NoFile)
    /\ schema_list \in SchemaLists
    /\ include_dependencies \in BOOLEAN
    /\ spc = "open"
    /\ schema_dict = <<>>
    /\ visited_types = {}
    /\ loops = <<>>
    /\ schema_result = NoSchemas
    /\ ValidatorIdle

NextSchema ==
    \/ FullSchemaNotFound
    \/ NoDefinitions
    \/ StartCollecting
    \/ CollectNext
    \/ CollectReturn
    \/ ReturnSchemas

SpecSchema == InitSchema /\ [][NextSchema]_vars

(***************************************************************************)
(* Properties of validate_app_config                                       *)
(***************************************************************************)
\* validate_app_config has returned a report
Returned == pc = "done" /\ result.returned

\* it has returned after the walk ran to its end
WalkCompleted == Returned /\ trace # <<>>

RECURSIVE NodesUnder(_, _)
\* every value of a document with its path from the root
NodesUnder(x, path) ==
    {[path |-> path, node |-> x]}
    \cup (IF IsDict(x)
          THEN UNION { NodesUnder(x.v[i].val, Append(path, PyStr(x.v[i].key))) :
                         i \in 1..Len(x.v) }
          ELSE IF IsList(x)
          THEN UNION { NodesUnder(x.v[i], Append(path, PyInt(ToString(i - 1)))) :
                         i \in 1..Len(x.v) }
          ELSE {})

\* the values of the decoded document
DocumentNodes == NodesUnder(app_config, <<>>)

\* the path passes through a key named fields or actions
BeneathSkippedKey(path) ==
    \E i \in 1..Len(path) : path[i] \in {PyStr("fields"), PyStr("actions")}

\* the calls of fn made for the value at path
Calls(fn, path) == { i \in DOMAIN trace : trace[i].fn = fn /\ trace[i].path = path }

\* the entries of a list of errors that begin with prefix
EntriesWith(errs, prefix) == { j \in DOMAIN errs : StartsWith(errs[j], prefix) }

\* C1: every report validate_app_config returns, on whichever return path,
\* has valid equal to "errors is empty"
C1_ValidIffNoErrors ==
    result.returned => (result.valid <=> (result.errors = <<>>))

\* C1 witness: the walk ran to its end and the report holds one error
C1_Witness == WalkCompleted /\ Len(result.errors) = 1 /\ ~result.valid

\* C2: validate_app_config never raises: whatever values the document
\* holds, the run ends in a returned report
C2_NeverRaises == pc # "raised" /\ exc = ""

\* the text, fences stripped, is not parseable and the run is over
ParseFailedRun == pc = "done" /\ ~Decoded(app_config_str).ok

\* the parse message with its line and column, as json.loads reports them
ParsePosition ==
    Decoded(app_config_str).msg
    \o " at line "
    \o ToString(ErrLineno(CleanStr(app_config_str), Decoded(app_config_str).nxt))
    \o ", column "
    \o ToString(ErrColno(CleanStr(app_config_str), Decoded(app_config_str).nxt))

\* no type detection, no schema loading, no tree walk
NoFurtherProcessing ==
    /\ target_type_detected = PyNone
    /\ app_defs = PyDict(<<>>) /\ comp_defs = PyDict(<<>>)
    /\ trace = <<>> /\ stack = <<>>
    /\ ~LUCIDE_ICONS_SET.loaded /\ ~GOOGLE_FONTS_DATA.loaded

JsonRepairLoads(text) == JsonLoads(StrReplace(StrReplace(text, ",}", "}"), ",]", "]"))

\* C4: when the initial parse fails and the repair yields a document, the
\* run goes on with the repaired document instead of returning the parse
\* failure
C4_RepairAttempted ==
    (ParseFailedRun /\ JsonRepairLoads(CleanStr(app_config_str)).ok) =>
        /\ result.returned
        /\ EntriesWith(result.errors, "Invalid JSON: ") = {}
        /\ app_config = JsonRepairLoads(CleanStr(app_config_str)).val

\* the detection has run on a root object
DetectionDone == pc \in {"load_schemas", "walk", "done", "raised"} /\ IsDict(app_config)

Has(key) == HasKey(app_config, key)

\* the page type of the root: pageType, or type when pageType is absent or
\* empty
PageTypeGiven ==
    IF Has("pageType") /\ Truthy(GetItem(app_config, "pageType"))
    THEN GetItem(app_config, "pageType")
    ELSE IF Has("type") THEN GetItem(app_config, "type") ELSE PyNone

\* the run ended with the single fatal error that begins with prefix
SingleFatal(prefix) ==
    /\ pc = "done" /\ result.returned /\ ~result.valid
    /\ Len(result.errors) = 1 /\ StartsWith(result.errors[1], prefix)
    /\ target_type_detected = PyNone
    /\ trace = <<>>

\* the detection gave type and the run went on
Gives(type) ==
    /\ target_type_detected = type
    /\ pc = "done" =>
          /\ EntriesWith(result.errors, "Invalid page type: ") = {}
          /\ EntriesWith(result.errors, "Cannot detect JSON object type") = {}

\* C5: the detected type of a root object is given by the first matching
\* rule among appType; title, slug and a page type (one of the three page
\* types, else the single fatal 'Invalid page type' error); title and slug;
\* componentType; light and dark; else the single fatal 'Cannot detect'
\* error.  A root with only title and slug and expected type WebPageProps
\* yields no mismatch error
C5_DetectionOrder ==
    DetectionDone =>
        /\ IF Has("appType") THEN Gives(GetItem(app_config, "appType"))
           ELSE IF Has("title") /\ Has("slug") /\ (Has("pageType") \/ Has("type"))
           THEN (IF PageTypeGiven \in {PyStr("WebPageProps"), PyStr("BlogPostPageProps"),
                                       PyStr("BlogMainPageProps")}
                 THEN Gives(PageTypeGiven)
                 ELSE SingleFatal("Invalid page type: "))
           ELSE IF Has("title") /\ Has("slug") THEN Gives(PyStr("WebPageProps"))
           ELSE IF Has("componentType") THEN Gives(GetItem(app_config, "componentType"))
           ELSE IF Has("light") /\ Has("dark") THEN Gives(PyStr("ThemeProps"))
           ELSE SingleFatal("Cannot detect JSON object type")
        /\ ({app_config.v[i].key : i \in 1..Len(app_config.v)} = {"title", "slug"}
            /\ target_type = "WebPageProps")
           => /\ EntriesWith(errors, "Invalid object type detected") = {}
              /\ EntriesWith(result.errors, "Invalid object type detected") = {}

\* C5 witness: a root with only title and slug, expected WebPageProps, was
\* walked to the end
C5_Witness ==
    /\ WalkCompleted
    /\ IsDict(app_config)
    /\ {app_config.v[i].key : i \in 1..Len(app_config.v)} = {"title", "slug"}
    /\ target_type = "WebPageProps"
    /\ target_type_detected = PyStr("WebPageProps")

\* C6: when the detected root type differs from the expected type, exactly
\* one mismatch error is recorded, as the first entry, the run goes on, and
\* the root is validated against the expected type; when they are equal no
\* mismatch error is recorded
C6_MismatchRecorded ==
    WalkCompleted =>
        IF target_type_detected # PyStr(target_type)
        THEN /\ EntriesWith(result.errors, "Invalid object type detected: ") = {1}
             /\ \E i \in Calls("_validate_inst", <<>>) : trace[i].arg = PyStr(target_type)
        ELSE /\ EntriesWith(result.errors, "Invalid object type detected: ") = {}
             /\ \E i \in Calls("_validate_inst", <<>>) : trace[i].arg = PyStr(target_type)

\* the objects other than the root that carry a componentType outside the
\* skip list and lie beneath no key named fields or actions
TaggedNodes ==
    { n \in DocumentNodes :
        /\ n.path # <<>>
        /\ ~BeneathSkippedKey(n.path)
        /\ IsDict(n.node) /\ HasKey(n.node, "componentType")
        /\ ~InList(GetItem(n.node, "componentType"), SKIP_VALIDATION_COMPONENTS) }

\* C7: every such object is validated exactly once, against the definition
\* its own componentType names, at any depth and under any key
C7_NestedValidatedOnce ==
    WalkCompleted =>
        \A n \in TaggedNodes :
            /\ Cardinality(Calls("_validate_inst", n.path)) = 1
            /\ \A i \in Calls("_validate_inst", n.path) :
                  trace[i].arg = GetItem(n.node, "componentType")

\* C8: nothing beneath a key named fields or actions is dispatched to a
\* validation, and the walker does not descend into the value under such a
\* key; every value outside such keys is walked
C8_SkippedSubtrees ==
    /\ \A i \in DOMAIN trace :
          IF trace[i].fn = "_recurse"
          THEN ~BeneathSkippedKey(SubSeq(trace[i].path, 1, Len(trace[i].path) - 1))
          ELSE ~BeneathSkippedKey(trace[i].path)
    /\ WalkCompleted =>
          \A n \in DocumentNodes :
              ~BeneathSkippedKey(n.path) => Cardinality(Calls("_recurse", n.path)) = 1

\* C8 witness: the walk ended on a document with a tagged object two levels
\* down, under a key named fields or actions
C8_Witness ==
    /\ WalkCompleted
    /\ \E n \in DocumentNodes :
          /\ Len(n.path) >= 2
          /\ n.path[Len(n.path)] \in {PyStr("fields"), PyStr("actions")}
          /\ IsDict(n.node) /\ HasKey(n.node, "componentType")

\* a dispatch to _validate_inst under a type name declared in neither the
\* app definitions nor the component definitions
UnknownDispatch(e) ==
    /\ e.fn = "_validate_inst"
    /\ IsStr(e.arg)
    /\ ~HasKey(app_defs, e.arg.s) /\ ~HasKey(comp_defs, e.arg.s)

\* the children of a value, in order
ChildrenOf(x) ==
    IF IsDict(x) THEN [i \in 1..Len(x.v) |-> x.v[i].val]
    ELSE IF IsList(x) THEN x.v
    ELSE <<>>

\* what one step appends to the history and to the error list
NewEvents == SubSeq(trace', Len(trace) + 1, Len(trace'))
NewErrors == SubSeq(errors', Len(errors) + 1, Len(errors'))

\* one step of the walk that dispatches under an undeclared name
UnknownTypeStep(e) ==
    /\ Cardinality({ j \in DOMAIN NewErrors :
                       StrContains(NewErrors[j], "Unknown componentType") }) = 1
    /\ \E j \in DOMAIN NewErrors :
          NewErrors[j] = "[" \o e.loc \o "] Unknown componentType '" \o e.arg.s \o "'"
    /\ EntriesWith(NewErrors, "[" \o e.loc \o ":") = {}
    /\ pc' = "walk" /\ exc' = ""
    /\ Len(stack') = Len(ChildrenOf(Head(stack).node)) + Len(stack) - 1
    /\ \A i \in DOMAIN ChildrenOf(Head(stack).node) :
          stack'[i].node = ChildrenOf(Head(stack).node)[i]

\* C9: a dispatch under a type name declared in neither set of definitions
\* appends exactly one 'Unknown componentType' error, runs no structural
\* validation of the node, does not abort the run, and leaves every child of
\* the node to be walked
C9_UnknownTypeReported ==
    [][\A k \in DOMAIN NewEvents : UnknownDispatch(NewEvents[k]) => UnknownTypeStep(NewEvents[k])]_vars

\* C9 witness: the walk ended after an object of an undeclared type was
\* reported and a child of it was walked
C9_Witness ==
    /\ WalkCompleted
    /\ \E i \in DOMAIN trace :
          /\ UnknownDispatch(trace[i])
          /\ trace[i].path # <<>>
          /\ EntriesWith(result.errors, "[" \o trace[i].loc \o "] Unknown componentType") # {}
          /\ \E j \in DOMAIN trace :
                /\ trace[j].fn = "_validate_inst"
                /\ Len(trace[j].path) = Len(trace[i].path) + 1
                /\ SubSeq(trace[j].path, 1, Len(trace[i].path)) = trace[i].path

\* the icon set as _get_lucide_icons_set loads it
IconSetOnDisk == IF files.icons.exists THEN SplitLines(files.icons.content) ELSE {}

\* the values validate_app_config reaches as IconProps and that have a name
IconNodes ==
    { n \in DocumentNodes :
        /\ IsDict(n.node)
        /\ IsStr(DictGet(n.node, "name")) /\ DictGet(n.node, "name").s # ""
        /\ IF n.path = <<>> THEN target_type = "IconProps"
           ELSE /\ ~BeneathSkippedKey(n.path)
                /\ DictGet(n.node, "componentType") = PyStr("IconProps") }

\* C10: for every IconProps node, the error list holds an 'Invalid icon
\* name' entry for it exactly if its name, lower-cased, is not in the icon
\* set
C10_IconNamesChecked ==
    WalkCompleted =>
        \A n \in IconNodes :
            (StrLower(DictGet(n.node, "name").s) \notin IconSetOnDisk)
            <=> \E j \in DOMAIN result.errors :
                   StrContains(result.errors[j],
                               "Invalid icon name: '" \o DictGet(n.node, "name").s \o "'")

\* the calls of the fonts check and of the theme check on the root object
RootFontsCalls == Calls("_validate_webapp_fonts", <<>>)
RootThemeCalls == Calls("_validate_webapp_theme", <<>>)

\* C11: the fonts and theme checks are run on the root object, once each,
\* exactly when the detected type of the root is WebAppProps, whatever the
\* expected type
C11_RootChecksByDetectedType ==
    WalkCompleted =>
        IF target_type_detected = PyStr("WebAppProps")
        THEN Cardinality(RootFontsCalls) = 1 /\ Cardinality(RootThemeCalls) = 1
        ELSE RootFontsCalls = {} /\ RootThemeCalls = {}

\* the entries of the fonts mapping of the root that are objects
RootFontEntries ==
    IF IsDict(app_config) /\ IsDict(DictGet(app_config, "fonts"))
    THEN { e \in { DictGet(app_config, "fonts").v[i] :
                     i \in 1..Len(DictGet(app_config, "fonts").v) } : IsDict(e.val) }
    ELSE {}

NonEmptyStr(x) == IsStr(x) /\ x.s # ""

\* the url breaks one of the two rules for the family
UrlRuleBroken(url, family) ==
    \/ ~StartsWith(url, "https://fonts.googleapis.com/css")
    \/ ~StrContains(url, "family=" \o StrReplace(family, " ", "+"))

\* the report holds a url error for the entry font_key of the root
UrlErrorAt(font_key) ==
    \E j \in DOMAIN result.errors :
        /\ StartsWith(result.errors[j], "[root.fonts." \o font_key \o "] ")
        /\ \/ StrContains(result.errors[j], "Invalid Google Fonts URL")
           \/ StrContains(result.errors[j], "not found in URL")

\* C12: when the fonts check runs, every entry of the fonts mapping with a
\* non-empty string url that breaks the prefix rule or the family rule gets
\* a url error, whether or not its family is a known font family
C12_UrlCheckedForEveryEntry ==
    (WalkCompleted /\ RootFontsCalls # {}) =>
        \A e \in RootFontEntries :
            (/\ NonEmptyStr(DictGet(e.val, "url"))
             /\ NonEmptyStr(DictGet(e.val, "family"))
             /\ UrlRuleBroken(DictGet(e.val, "url").s, DictGet(e.val, "family").s))
            => UrlErrorAt(e.key)

\* the text is 'H S% L%' with L a whole number
IsHslColor(c) ==
    /\ IsStr(c)
    /\ Len(StrSplit(c.s)) = 3
    /\ Len(StrSplit(c.s)[3]) >= 2
    /\ CharAt(StrSplit(c.s)[3], Len(StrSplit(c.s)[3])) = "%"
    /\ \A i \in 1..(Len(StrSplit(c.s)[3]) - 1) : CharAt(StrSplit(c.s)[3], i) \in Digits

\* the L of 'H S% L%'
LightnessPoints(c) ==
    DecVal(SubSeq(StrSplit(c.s)[3], 1, Len(StrSplit(c.s)[3]) - 1),
           Len(StrSplit(c.s)[3]) - 1)

\* the palette name of the theme of the root, None when there is none
RootPalette(name) ==
    IF IsDict(app_config) /\ IsDict(DictGet(app_config, "theme"))
    THEN DictGet(DictGet(app_config, "theme"), name)
    ELSE PyNone

BothHsl(pal, key1, key2) ==
    /\ IsDict(pal)
    /\ HasKey(pal, key1) /\ IsHslColor(GetItem(pal, key1))
    /\ HasKey(pal, key2) /\ IsHslColor(GetItem(pal, key2))

LightnessGap(pal, key1, key2) ==
    IF LightnessPoints(GetItem(pal, key1)) >= LightnessPoints(GetItem(pal, key2))
    THEN LightnessPoints(GetItem(pal, key1)) - LightnessPoints(GetItem(pal, key2))
    ELSE LightnessPoints(GetItem(pal, key2)) - LightnessPoints(GetItem(pal, key1))

\* the entries of the report for the pair label of the palette name
PaletteErrors(name, label) ==
    EntriesWith(result.errors, "[root.theme." \o name \o "] " \o label \o ": ")

\* C13: when the theme check runs on a palette whose background and
\* foreground are both HSL strings, the report holds no
\* Background/Foreground entry for the palette when the lightness values
\* differ by at least 50 points and one entry when they differ by less
C13_BackgroundForeground ==
    (WalkCompleted /\ RootThemeCalls # {}) =>
        \A name \in {"light", "dark"} :
            BothHsl(RootPalette(name), "background", "foreground") =>
                Cardinality(PaletteErrors(name, "Background/Foreground")) =
                    IF LightnessGap(RootPalette(name), "background", "foreground") >= 50
                    THEN 0 ELSE 1

\* the pairs under the 40-point rule
FortyPointPairs ==
    { [key1 |-> "background", key2 |-> "primary", label |-> "Background/Primary"],
      [key1 |-> "primary", key2 |-> "primary-foreground",
       label |-> "Primary/Primary-foreground"],
      [key1 |-> "background", key2 |-> "accent", label |-> "Background/Accent"] }

\* C14: when the theme check runs, in the light palette and in the dark
\* palette alike, each of the pairs background/primary,
\* primary/primary-foreground and background/accent whose two values are
\* HSL strings less than 40 lightness points apart gets an entry for that
\* palette
C14_PairChecksBothPalettes ==
    (WalkCompleted /\ RootThemeCalls # {}) =>
        \A name \in {"light", "dark"}, pr \in FortyPointPairs :
            (/\ BothHsl(RootPalette(name), pr.key1, pr.key2)
             /\ LightnessGap(RootPalette(name), pr.key1, pr.key2) < 40)
            => PaletteErrors(name, pr.label) # {}

\* the calls of _recurse, in the order they were made
RecurseEvents == SelectSeq(trace, LAMBDA e : e.fn = "_recurse")

\* the step from a value to its i-th child: a key or an index
StepTo(x, i) == IF IsDict(x) THEN PyStr(x.v[i].key) ELSE PyInt(ToString(i - 1))

RECURSIVE PreOrderPaths(_, _)
RECURSIVE PreOrderFrom(_, _, _)
\* the paths of the values of a document in pre-order: a value, then its
\* children in document order (the entries of an object, the elements of
\* an array), with nothing beneath a key named fields or actions
PreOrderPaths(x, path) ==
    <<path>> \o (IF BeneathSkippedKey(path) THEN <<>> ELSE PreOrderFrom(x, path, 1))

PreOrderFrom(x, path, i) ==
    IF i > Len(ChildrenOf(x)) THEN <<>>
    ELSE PreOrderPaths(ChildrenOf(x)[i], Append(path, StepTo(x, i)))
         \o PreOrderFrom(x, path, i + 1)

\* the value of the document at a path
NodeAt(path) == (CHOOSE n \in DocumentNodes : n.path = path).node

\* the errors of one visited value: what its validation appends
VisitErrors(e) ==
    IF e.arg.s \in {"fields", "actions"} THEN <<>>
    ELSE Dispatch(Frame(NodeAt(e.path), e.loc, e.arg.s, e.path), target_type,
                  app_defs, comp_defs,
                  GetLucideIconsSet(NotLoaded, files.icons).data,
                  GetGoogleFontsData(NotLoaded, files.fonts).data).errs

\* the visit of the value at a path
VisitOf(path) == RecurseEvents[CHOOSE i \in DOMAIN RecurseEvents : RecurseEvents[i].path = path]

RECURSIVE ConcatVisits(_, _)
\* the errors of the visits from the i-th on, one visit after the other
ConcatVisits(visits, i) ==
    IF i > Len(visits) THEN <<>>
    ELSE VisitErrors(visits[i]) \o ConcatVisits(visits, i + 1)

\* the mismatch entry that precedes the walk
MismatchEntries ==
    IF target_type_detected # PyStr(target_type)
    THEN SelectSeq(result.errors, LAMBDA m : StartsWith(m, "Invalid object type detected: "))
    ELSE <<>>

\* no error of the list has a path below that of an earlier one
IsSortedByPath(es) ==
    \A i \in DOMAIN es, j \in DOMAIN es : i < j => ~PathLess(es[j].path, es[i].path)

\* the two lists hold the same errors the same number of times
SameErrors(a, b) ==
    /\ Len(a) = Len(b)
    /\ \A x \in {a[i] : i \in DOMAIN a} :
          Cardinality({i \in DOMAIN a : a[i] = x}) = Cardinality({i \in DOMAIN b : b[i] = x})

\* the structural errors of the value a _validate_inst call is about
StructuralErrors(e) ==
    IterErrors(NodeAt(e.path), GetItem(app_defs, e.arg.s), app_defs, <<>>)

\* the errors of the visit begin with the structural errors of the value,
\* sorted by path, and no structural entry follows them
StructuralFirst(e, found, batch) ==
    /\ IsSortedByPath(SortedByPath(found))
    /\ SameErrors(SortedByPath(found), found)
    /\ Len(batch) >= Len(found)
    /\ SubSeq(batch, 1, Len(found)) =
           FormatSchemaErrors(SortedByPath(found), e.loc, e.arg, 1)
    /\ \A j \in (Len(found) + 1)..Len(batch) :
           ~StartsWith(batch[j], "[" \o e.loc \o ":")

\* C15: the returned list is, after the mismatch entry, the concatenation
\* of the errors of each visited value in pre-order (object keys in
\* document order, array elements by index), nothing removed, repeated or
\* moved; within one value the structural errors come first, sorted by
\* path, and the semantic errors follow
C15_ErrorsInTraversalOrder ==
    WalkCompleted =>
        /\ [i \in DOMAIN RecurseEvents |-> RecurseEvents[i].path]
               = PreOrderPaths(app_config, <<>>)
        /\ result.errors = MismatchEntries \o ConcatVisits(RecurseEvents, 1)
        /\ \A i \in DOMAIN trace :
              (trace[i].fn = "_validate_inst" /\ Declared(trace[i].arg, app_defs)) =>
                  StructuralFirst(trace[i], StructuralErrors(trace[i]),
                                  VisitErrors(VisitOf(trace[i].path)))

\* C15 witness: a report that holds a structural error of the root, then
\* a semantic error of the root, then an error of a nested value
C15_Witness ==
    /\ WalkCompleted
    /\ \E i \in DOMAIN result.errors, j \in DOMAIN result.errors, k \in DOMAIN result.errors :
          /\ i < j /\ j < k
          /\ StartsWith(result.errors[i], "[root:WebAppProps] error at ")
          /\ StartsWith(result.errors[j], "[root.fonts.heading] ")
          /\ StartsWith(result.errors[k], "[child] ")
(***************************************************************************)
(* Several calls in one process                                            *)
(***************************************************************************)
\* the outcomes seen so far: the earlier calls and, once it ended, this one
Outcomes ==
    calls \cup (IF CallEnded THEN {Outcome(app_config_str, target_type, result, exc)} ELSE {})

\* C16: two calls of validate_app_config with the same text and the same
\* expected type, whatever calls came before or in between (the call that
\* fills the icon and font caches included), return the same valid flag and
\* the same errors in the same order, or raise the same exception
C16_Idempotent ==
    \A a \in Outcomes, b \in Outcomes :
        (a.text = b.text /\ a.target = b.target) => a = b

\* C16 witness: a document with an unknown font family was validated twice,
\* once filling the font cache and once from the filled cache, with another
\* call in between
C16_Witness ==
    /\ Cardinality(calls) = 2
    /\ pc = "done"
    /\ app_config_str = JsonDumps(FontsDoc("Comic Papyrus"))
    /\ \E c \in calls : c.text = app_config_str /\ c.target = target_type
    /\ \E c \in calls : c.text # app_config_str
    /\ GOOGLE_FONTS_DATA.loaded /\ GOOGLE_FONTS_DATA.data # PyDict(<<>>)
    /\ result.errors # <<>>

\* C17: a text wrapped in a markdown fence gets the report of the text itself
C17_FencedSameReport ==
    \A a \in Outcomes, b \in Outcomes :
        (b.text \in {Fenced(a.text), FencedTight(a.text)} /\ a.target = b.target) =>
            (a.result = b.result /\ a.exc = b.exc)

\* C17 witness: a document and its fenced form were both validated and the
\* report holds an error
C17_Witness ==
    \E a \in Outcomes, b \in Outcomes :
        /\ b.text = Fenced(a.text)
        /\ a.target = b.target
        /\ a.result.returned /\ ~a.result.valid
        /\ Len(a.result.errors) > 0
        /\ a.text = JsonDumps(FontsDoc("Comic Papyrus"))


(***************************************************************************)
(* The reference resolver                                                  *)
(***************************************************************************)
RECURSIVE RefNodes(_)
\* the reference nodes of a schema: the dicts with a '$ref' key, at any depth
RefNodes(x) ==
    IF IsDict(x)
    THEN (IF HasKey(x, "$ref") THEN {x} ELSE {})
         \cup UNION { RefNodes(x.v[i].val) : i \in 1..Len(x.v) }
    ELSE IF IsList(x) THEN UNION { RefNodes(x.v[i]) : i \in 1..Len(x.v) }
    ELSE {}

\* a reference node that names a type of the document
IsLocalRef(n) == IsStr(GetItem(n, "$ref")) /\ StartsWith(GetItem(n, "$ref").s, DefsMarker)

\* the type a local reference node names
TargetOf(n) == SubSeq(GetItem(n, "$ref").s, Len(DefsMarker) + 1, Len(GetItem(n, "$ref").s))

DefinedTypes == { FullDefinitions.v[i].key : i \in 1..Len(FullDefinitions.v) }

\* the defined types a definition refers to
RefersTo(t) ==
    { TargetOf(n) : n \in { m \in RefNodes(GetItem(FullDefinitions, t)) : IsLocalRef(m) } }
    \cap DefinedTypes

RECURSIVE ReachedFrom(_)
\* the types reached from the types ts by one reference or more
ReachedFrom(ts) ==
    LET step == UNION { RefersTo(t) : t \in ts }
    IN  IF step \subseteq ts THEN ts ELSE ReachedFrom(ts \cup step)

OnCycle(t) == t \in DefinedTypes /\ t \in UNION { ReachedFrom({u}) : u \in RefersTo(t) }

NoCircularReferences == \A t \in DefinedTypes : ~OnCycle(t)

\* the resolved definitions stored so far
StoredSchemas == { schema_dict[i].val : i \in 1..Len(schema_dict) }

\* C18: in a document without circular references a resolved definition
\* holds no reference node at any depth; in any document the reference nodes
\* left in a resolved definition are cycle markers: they name a type that
\* lies on a reference cycle
C18_OnlyCycleMarkersLeft ==
    \A sch \in StoredSchemas :
        /\ NoCircularReferences => RefNodes(sch) = {}
        /\ \A n \in RefNodes(sch) : IsLocalRef(n) /\ OnCycle(TargetOf(n))

RECURSIVE RefCount(_)
RECURSIVE RefCountEach(_, _)
\* the number of reference nodes of a schema, each counted where it stands
RefCount(x) ==
    IF IsDict(x)
    THEN (IF HasKey(x, "$ref") THEN 1 ELSE 0)
         + RefCountEach([i \in 1..Len(x.v) |-> x.v[i].val], 1)
    ELSE IF IsList(x) THEN RefCountEach(x.v, 1)
    ELSE 0

RefCountEach(xs, i) ==
    IF i > Len(xs) THEN 0 ELSE RefCount(xs[i]) + RefCountEach(xs, i + 1)

RECURSIVE RefsTo(_, _)
RECURSIVE RefsToEach(_, _, _)
\* the number of reference nodes of a schema that name the type u
RefsTo(x, u) ==
    IF IsDict(x)
    THEN (IF HasKey(x, "$ref") /\ IsLocalRef(x) /\ TargetOf(x) = u THEN 1 ELSE 0)
         + RefsToEach([i \in 1..Len(x.v) |-> x.v[i].val], u, 1)
    ELSE IF IsList(x) THEN RefsToEach(x.v, u, 1)
    ELSE 0

RefsToEach(xs, u, i) ==
    IF i > Len(xs) THEN 0 ELSE RefsTo(xs[i], u) + RefsToEach(xs, u, i + 1)

\* the chains of distinct types, each written from its least type on
TypeChains ==
    { c \in UNION { [1..k -> DefinedTypes] : k \in 1..Cardinality(DefinedTypes) } :
        /\ \A i \in DOMAIN c : \A j \in DOMAIN c : i # j => c[i] # c[j]
        /\ \A i \in DOMAIN c : i > 1 => StrLess(c[1], c[i]) }

RECURSIVE WaysAround(_, _)
\* the number of ways to follow the chain c from c[i] on and back to c[1],
\* one reference node per step
WaysAround(c, i) ==
    IF i > Len(c) THEN 1
    ELSE RefsTo(GetItem(FullDefinitions, c[i]), c[(i % Len(c)) + 1]) * WaysAround(c, i + 1)

RECURSIVE TotalWays(_)
TotalWays(cs) ==
    IF cs = {} THEN 0
    ELSE LET c == CHOOSE x \in cs : TRUE IN WaysAround(c, 1) + TotalWays(cs \ {c})

\* the number of reference cycles of the document: the chains of references
\* that return to their first type without passing a type twice
ReferenceCycles == TotalWays(TypeChains)

RECURSIVE CycleMarkers(_, _)
\* the number of reference nodes of a schema that name one of the types ts
CycleMarkers(x, ts) ==
    IF ts = {} THEN 0
    ELSE LET t == CHOOSE u \in ts : TRUE IN RefsTo(x, t) + CycleMarkers(x, ts \ {t})

RECURSIVE Depth(_)
\* the nesting depth of a value
Depth(x) ==
    IF (IsDict(x) \/ IsList(x)) /\ x.v # <<>>
    THEN 1 + MaxOf({ Depth(IF IsDict(x) THEN x.v[i].val ELSE x.v[i]) : i \in 1..Len(x.v) })
    ELSE IF IsDict(x) \/ IsList(x) THEN 1
    ELSE 0

MaxDefinitionDepth == MaxOf({ Depth(FullDefinitions.v[i].val) : i \in 1..Len(FullDefinitions.v) })

\* every definition holds at most one reference node, and that node names
\* a type of the document
SingleReferences ==
    \A i \in 1..Len(FullDefinitions.v) :
        /\ RefCount(FullDefinitions.v[i].val) <= 1
        /\ \A n \in RefNodes(FullDefinitions.v[i].val) :
              IsLocalRef(n) /\ TargetOf(n) \in DefinedTypes

ReachesCycle(t) == \E u \in ReachedFrom({t}) : OnCycle(u)

\* the nesting of a resolved definition is bounded; when every definition
\* holds at most one reference, the resolved definition of a type holds one
\* unexpanded reference if the type leads into a cycle and none otherwise
MarkersBounded ==
    \A i \in 1..Len(schema_dict) :
        /\ Depth(schema_dict[i].val) <= (Cardinality(DefinedTypes) + 1) * MaxDefinitionDepth
        /\ SingleReferences =>
              RefCount(schema_dict[i].val) = IF ReachesCycle(schema_dict[i].key) THEN 1 ELSE 0

\* the type names the call can meet
KnownTypes ==
    { schema_list[i] : i \in 1..Len(schema_list) }
    \cup (IF files.schema.exists /\ HasKey(files.schema.content, "definitions")
          THEN DefinedTypes
               \cup UNION { FindSchemaReferences(FullDefinitions.v[i].val) :
                              i \in 1..Len(FullDefinitions.v) }
          ELSE {})

RECURSIVE LoopWork(_, _)
\* the types the pending loops still hold, and one for each loop
LoopWork(ls, i) ==
    IF i > Len(ls) THEN 0
    ELSE 1 + (IF ls[i].ordered THEN Len(ls[i].list) ELSE Cardinality(ls[i].set))
         + LoopWork(ls, i + 1)

\* a number that bounds the steps the call has left
StepsLeft ==
    CASE spc = "done"    -> 0
      [] spc = "collect" -> 1 + Cardinality(KnownTypes \ visited_types) * (Cardinality(KnownTypes) + 2)
                              + LoopWork(loops, 1)
      [] OTHER           -> 3 + Cardinality(KnownTypes) * (Cardinality(KnownTypes) + 2)
                              + Len(schema_list)

KeysOf(d) == { d.v[i].key : i \in 1..Len(d.v) }

\* the keys next to the reference
SiblingKeys(node) == KeysOf(node) \ {"$ref"}

\* the stored types whose definition is a reference node with sibling keys
\* that names a type of the document: get_exepad_schema expanded that node
ExpandedAtTop ==
    { i \in 1..Len(schema_dict) :
        LET node == GetItem(FullDefinitions, schema_dict[i].key)
        IN  IsDict(node) /\ HasKey(node, "$ref") /\ IsLocalRef(node)
            /\ TargetOf(node) \in DefinedTypes /\ SiblingKeys(node) # {} }

\* what resolve_ref gave for the definition the node names
ResolvedTarget(node) ==
    ResolveRef(GetItem(FullDefinitions, TargetOf(node)), FullDefinitions, {TargetOf(node)}).val

\* the result of the expansion holds the keys of both sides, a sibling key
\* with the node's value, another key with the resolved definition's value
MergedFrom(sch, node, resolved) ==
    /\ KeysOf(sch) = KeysOf(resolved) \cup SiblingKeys(node) \cup {"schemaTypeName"}
    /\ \A k \in SiblingKeys(node) : GetItem(sch, k) = GetItem(node, k)
    /\ \A k \in KeysOf(resolved) \ SiblingKeys(node) : GetItem(sch, k) = GetItem(resolved, k)

\* C20 (as stated): an expanded reference node gives the keys of the
\* resolved definition and the sibling keys, the sibling's value where both
\* have the key, and no '$ref' key
C20_MergedWithoutRefKey ==
    \A i \in ExpandedAtTop :
        /\ MergedFrom(schema_dict[i].val, GetItem(FullDefinitions, schema_dict[i].key),
                      ResolvedTarget(GetItem(FullDefinitions, schema_dict[i].key)))
        /\ ~HasKey(schema_dict[i].val, "$ref")

\* C20: an expanded reference node gives the keys of the resolved definition
\* and the sibling keys, the sibling's value where both have the key; the
\* node's own '$ref' is not copied, the result has a '$ref' key exactly when
\* the resolved definition has one
C20_SiblingsMergedOnTop ==
    \A i \in ExpandedAtTop :
        /\ MergedFrom(schema_dict[i].val, GetItem(FullDefinitions, schema_dict[i].key),
                      ResolvedTarget(GetItem(FullDefinitions, schema_dict[i].key)))
        /\ HasKey(schema_dict[i].val, "$ref")
             <=> HasKey(ResolvedTarget(GetItem(FullDefinitions, schema_dict[i].key)), "$ref")

\* C20 witness: A is a reference to B with a description of its own, B has
\* another description, and the stored schema of A has A's description
C20_Witness ==
    /\ spc = "done"
    /\ schema_result.status = "success"
    /\ GetItem(FullDefinitions, "A") = Described(RefTo("B"), "local")
    /\ GetItem(FullDefinitions, "B") = Described(TypeIs("string"), "remote")
    /\ \E i \in ExpandedAtTop :
          /\ schema_dict[i].key = "A"
          /\ GetItem(schema_dict[i].val, "description") = S("local")
          /\ GetItem(schema_dict[i].val, "type") = S("string")
          /\ ~HasKey(schema_dict[i].val, "$ref")

(***************************************************************************)
(* The dependency closure                                                  *)
(***************************************************************************)
SchemasListed == spc = "done" /\ schema_result.status = "success"

\* the type names of the returned list
ReturnedNames == { TypeNameOf(schema_result.schemas[i]).s : i \in 1..Len(schema_result.schemas) }

RequestedNames == { schema_list[i] : i \in 1..Len(schema_list) }

\* the names a definition refers to by a reference node, at any depth
NamedIn(def) ==
    { TargetOf(n) : n \in { m \in RefNodes(def) : IsLocalRef(m) } }

RECURSIVE NamesReached(_)
\* the names reached from the names ts by following reference nodes
NamesReached(ts) ==
    LET step == UNION { NamedIn(GetItem(FullDefinitions, t)) : t \in ts \cap DefinedTypes }
    IN  IF step \subseteq ts THEN ts ELSE NamesReached(ts \cup step)

\* C21 (as stated): without dependencies the returned names are the
\* requested names, with dependencies they are the requested names and every
\* name reached from them through references, each once
C21_RequestedOrClosure ==
    SchemasListed =>
        /\ ReturnedNames = IF include_dependencies THEN NamesReached(RequestedNames)
                           ELSE RequestedNames
        /\ Len(schema_result.schemas) = Cardinality(ReturnedNames)

\* a type that has a definition whose resolution gives a dict
Storable(t) == t \in DefinedTypes /\ ~CollectFails(ResolveTop(t))

\* the names a stored definition pulls in: what follows '#/definitions/' in
\* the string of a reference node, wherever the marker stands in that string
PulledInBy(def) ==
    UNION { SearchRefName(GetItem(n, "$ref").s) :
              n \in { m \in RefNodes(def) : IsStr(GetItem(m, "$ref")) } }

RECURSIVE StoredClosure(_)
\* the storable types reached from the storable types ts through stored
\* definitions only
StoredClosure(ts) ==
    LET step == { u \in UNION { PulledInBy(GetItem(FullDefinitions, t)) : t \in ts } : Storable(u) }
    IN  IF step \subseteq ts THEN ts ELSE StoredClosure(ts \cup step)

\* the ways to name, for each entry of the returned list, the stored schema
\* it is
Origins ==
    { o \in [1..Len(schema_result.schemas) -> 1..Len(schema_dict)] :
        /\ \A i \in DOMAIN o : \A j \in DOMAIN o : i # j => o[i] # o[j]
        /\ \A i \in DOMAIN o : schema_result.schemas[i] = schema_dict[o[i]].val }

StoredKeys == { schema_dict[i].key : i \in 1..Len(schema_dict) }

\* C21: the returned list holds one entry for each stored definition; the
\* keys of the stored definitions are the requested names that have a
\* definition which resolves to a dict and, with dependencies, the such names
\* reached from them through the references of stored definitions
C21_StorableClosure ==
    SchemasListed =>
        /\ StoredKeys =
              IF include_dependencies
              THEN StoredClosure({ t \in RequestedNames : Storable(t) })
              ELSE { t \in RequestedNames : Storable(t) }
        /\ Len(schema_result.schemas) = Len(schema_dict)
        /\ Origins # {}

\* C21 witness: A is requested with dependencies, A refers to B inside a
\* list, and both are returned
C21_Witness ==
    /\ SchemasListed
    /\ include_dependencies
    /\ schema_list = <<"A">>
    /\ GetItem(FullDefinitions, "A") = PyDict(<<Entry("anyOf", PyList(<<RefTo("B"), TypeIs("null")>>))>>)
    /\ ReturnedNames = {"A", "B"}

\* the type names of the returned list, in its order
ReturnedOrder == [i \in 1..Len(schema_result.schemas) |-> TypeNameOf(schema_result.schemas[i]).s]

\* the order of the keys o puts no dependency before a requested type and
\* has the requested types by name and the dependencies by name
RequestedFirst(o) ==
    \A i \in DOMAIN o : \A j \in DOMAIN o :
        i < j =>
            /\ schema_dict[o[j]].key \in RequestedNames => schema_dict[o[i]].key \in RequestedNames
            /\ (schema_dict[o[i]].key \in RequestedNames <=> schema_dict[o[j]].key \in RequestedNames)
                  => StrLess(schema_dict[o[i]].key, schema_dict[o[j]].key)

\* C22: in the returned list no pulled-in dependency stands before a
\* requested type, the requested types stand in the order of their names and
\* so do the dependencies
C22_RequestedFirstThenByName ==
    SchemasListed => \E o \in Origins : RequestedFirst(o)

\* C23: every returned entry is the resolved definition of one type with
\* the tag schemaTypeName put before it, the tag being the key of that type
C23_TaggedWithOwnKey ==
    SchemasListed =>
        \E o \in Origins :
            \A i \in DOMAIN o :
                LET t == schema_dict[o[i]].key
                    entry == schema_result.schemas[i]
                IN  /\ TypeNameOf(entry) = S(t)
                    /\ entry.v[1].key = "schemaTypeName"
                    /\ SubSeq(entry.v, 2, Len(entry.v))
                         = SelectSeq(ResolveTop(t).val.v, LAMBDA e : e.key # "schemaTypeName")

RECURSIVE ResolverNames(_)
\* the names resolve_ref reads as references when it walks a definition: it
\* walks dicts and lists, and at a dict with a '$ref' key it looks at that
\* key alone
ResolverNames(x) ==
    IF IsDict(x)
    THEN (IF HasKey(x, "$ref")
          THEN (IF IsLocalRef(x) THEN {TargetOf(x)} ELSE {})
          ELSE UNION { ResolverNames(x.v[i].val) : i \in 1..Len(x.v) })
    ELSE IF IsList(x) THEN UNION { ResolverNames(x.v[i]) : i \in 1..Len(x.v) }
    ELSE {}

\* C24: for a stored definition whose dependencies are collected,
\* _find_schema_references gives the names the definition refers to by a
\* reference node at any depth, and these are the names resolve_ref reads as
\* references in that definition
C24_ReferencesAsResolved ==
    include_dependencies =>
        \A i \in 1..Len(schema_dict) :
            /\ FindSchemaReferences(GetItem(FullDefinitions, schema_dict[i].key))
                 = NamedIn(GetItem(FullDefinitions, schema_dict[i].key))
            /\ FindSchemaReferences(GetItem(FullDefinitions, schema_dict[i].key))
                 = ResolverNames(GetItem(FullDefinitions, schema_dict[i].key))

(***************************************************************************)
(* The reference tables                                                    *)
(***************************************************************************)
\* C25: in any sequence of calls each table file is opened at most once,
\* also when it was not found and the table was left empty, and a table
\* that has been set is not set again
C25_TablesLoadedOnce ==
    /\ [](loads.icons <= 1 /\ loads.fonts <= 1)
    /\ [][/\ LUCIDE_ICONS_SET.loaded => LUCIDE_ICONS_SET' = LUCIDE_ICONS_SET
          /\ GOOGLE_FONTS_DATA.loaded => GOOGLE_FONTS_DATA' = GOOGLE_FONTS_DATA]_vars

\* C25 witness: the fonts file is missing, an earlier call left the font
\* table empty, and a later call that reads the table has ended
C25_Witness ==
    /\ ~files.fonts.exists
    /\ pc = "done"
    /\ app_config_str \in FontsTexts
    /\ \E c \in calls : c.text \in FontsTexts
    /\ GOOGLE_FONTS_DATA = Loaded(PyDict(<<>>))
    /\ loads.fonts = 1


(***************************************************************************)
(* test_validation.py: run_validation_on_file detects the type of the      *)
(* document itself and hands the text and that type to validate_app_config *)
(***************************************************************************)
\* the chain over page_type in detect_target_type
ScriptPageType(page_type) ==
    IF page_type = S("WebPageProps") THEN S("WebPageProps")
    ELSE IF InList(page_type, <<S("BlogMainPageProps"), S("BlogMainPage")>>)
    THEN S("BlogMainPageProps")
    ELSE IF InList(page_type, <<S("BlogPostPageProps"), S("BlogPostPage")>>)
    THEN S("BlogPostPageProps")
    ELSE IF InList(page_type, <<S("Page"), S("Default")>>) THEN S("WebPageProps")
    ELSE S("WebPageProps")

\* detect_target_type
DetectTargetType(json_data) ==
    IF ~IsDict(json_data) THEN PyNone
    ELSE IF HasKey(json_data, "appType") /\ HasKey(json_data, "layout") THEN S("WebAppProps")
    ELSE IF HasKey(json_data, "title") /\ HasKey(json_data, "slug")
            /\ (HasKey(json_data, "pageType") \/ HasKey(json_data, "type"))
    THEN ScriptPageType(PageTypeOf(json_data))
    ELSE IF HasKey(json_data, "title") /\ HasKey(json_data, "slug") THEN S("WebPageProps")
    ELSE IF HasKey(json_data, "componentType") THEN GetItem(json_data, "componentType")
    ELSE PyNone

\* the documents of the script: the detection roots, with and without a
\* layout, and pages of the legacy page types
ScriptRoots ==
    DetectRoots
    \cup { PyDict(d.v \o <<Entry("layout", PyDict(<<>>))>>) :
             d \in { r \in DetectRoots : HasKey(r, "appType") } }
    \cup { PyDict(<<Entry("title", S("Home")), Entry("slug", S("home")), Entry("pageType", p)>>) :
             p \in {S("BlogMainPageProps"), S("BlogMainPage"), S("BlogPostPage"),
                    S("Page"), S("Default"), S("WebPageProps")} }

ScriptTexts ==
    { JsonDumps(d) : d \in ScriptRoots }
    \cup OtherTexts
    \cup { Fenced(JsonDumps(PyDict(<<Entry("title", S("Home")), Entry("slug", S("home"))>>))) }

\* run_validation_on_file has read the file; validate_app_config is not
\* called yet
InitScript ==
    /\ app_config_str \in ScriptTexts
    /\ target_type = ""
    /\ files \in {AllFiles, NoSchemaFiles}
    /\ pc = "script"
    /\ app_config = PyStr("")
    /\ errors = <<>>
    /\ target_type_detected = PyNone
    /\ app_defs = PyDict(<<>>)
    /\ comp_defs = PyDict(<<>>)
    /\ stack = <<>>
    /\ result = NoResult
    /\ exc = ""
    /\ LUCIDE_ICONS_SET = NotLoaded
    /\ GOOGLE_FONTS_DATA = NotLoaded
    /\ trace = <<>>
    /\ loads = [icons |-> 0, fonts |-> 0]
    /\ calls = {}
    /\ SchemaIdle

\* json.loads(json_string) succeeds and a type is detected:
\* validate_app_config(json_string, target_type) is called
CallValidator ==
    /\ pc = "script"
    /\ JsonLoads(app_config_str).ok
    /\ Truthy(DetectTargetType(JsonLoads(app_config_str).val))
    /\ IsStr(DetectTargetType(JsonLoads(app_config_str).val))
    /\ target_type' = DetectTargetType(JsonLoads(app_config_str).val).s
    /\ pc' = "parse"
    /\ UNCHANGED <<app_config_str, files, app_config, errors, target_type_detected,
                   app_defs, comp_defs, stack, result, exc, LUCIDE_ICONS_SET,
                   GOOGLE_FONTS_DATA, trace>>
    /\ UNCHANGED <<calls, schema_vars, loads>>

\* the text does not decode or no type is detected: the script returns
\* without calling the validator
ScriptReturns ==
    /\ pc = "script"
    /\ \/ ~JsonLoads(app_config_str).ok
       \/ ~Truthy(DetectTargetType(JsonLoads(app_config_str).val))
    /\ pc' = "skipped"
    /\ UNCHANGED <<app_config_str, target_type, files, app_config, errors,
                   target_type_detected, app_defs, comp_defs, stack, result, exc,
                   LUCIDE_ICONS_SET, GOOGLE_FONTS_DATA, trace>>
    /\ UNCHANGED <<calls, schema_vars, loads>>

\* the steps of validate_app_config a call by the script can take: the text
\* decoded in the script, and its value is an object on which a rule matched
NextScript ==
    \/ CallValidator
    \/ ScriptReturns
    \/ ParseJson
    \/ DetectRootType
    \/ RejectPageType
    \/ LoadSchemas
    \/ SchemaFileNotFound
    \/ Recurse
    \/ ReturnReport

SpecScript == InitScript /\ [][NextScript]_vars

\* the validator has returned to the script
ScriptValidated == pc = "done" /\ target_type # "" /\ result.returned

\* C26: whenever the script detects a type T and calls the validator with
\* the same text and T, the validator detects T as well: the report has no
\* type-mismatch entry and is not the "Invalid page type" report
C26_DetectionAgrees ==
    ScriptValidated =>
        /\ target_type_detected = S(target_type)
        /\ \A i \in 1..Len(result.errors) :
              result.errors[i] # MismatchError(target_type_detected, target_type)
        /\ result.errors # <<InvalidPageTypeError(PageTypeOf(app_config))>>


\* C27: the root branch of _recurse (the validation against the expected
\* root type and, for WebAppProps, the root fonts and theme checks) is taken
\* for the document root only, whatever the keys of the document are: every
\* call made under the breadcrumb of the root is made for the root, and the
\* fonts and theme checks of the root run once at most and on the root
C27_RootBranchOnlyAtRoot ==
    /\ \A i \in DOMAIN trace : trace[i].loc = "root" => trace[i].path = <<>>
    /\ \A i \in DOMAIN trace :
          trace[i].fn \in {"_validate_webapp_fonts", "_validate_webapp_theme"}
              => trace[i].path = <<>> /\ Calls(trace[i].fn, <<>>) = {i}


\* the schema stored under each key is what resolving that key gives now
StoredAsResolvedNow ==
    \A i \in 1..Len(schema_dict) :
        /\ ~CollectFails(ResolveTop(schema_dict[i].key))
        /\ schema_dict[i].val
              = SchemaWithType(schema_dict[i].key, ResolveTop(schema_dict[i].key).val)

\* C28: no step of get_exepad_schema changes the schema document, so its
\* definitions are after every resolve_ref what they were before it, and
\* at every later moment resolving a stored type again gives the schema
\* that was stored for it
C28_DefinitionsUnchanged ==
    /\ [][files' = files]_vars
    /\ [](spc # "idle" => StoredAsResolvedNow)

\* C28 witness: the call ended with two types stored, one of which had a
\* reference to the other expanded
C28_Witness ==
    /\ spc = "done"
    /\ \E i, j \in 1..Len(schema_dict) :
          /\ i # j
          /\ schema_dict[j].key \in FindSchemaReferences(GetItem(FullDefinitions, schema_dict[i].key))
          /\ schema_dict[i].val
                # SchemaWithType(schema_dict[i].key, GetItem(FullDefinitions, schema_dict[i].key))


RECURSIVE SchemaNodes(_)
\* the values of a schema at any depth, the schema itself included: the
\* values resolve_ref can be called with
SchemaNodes(x) ==
    {x} \cup (IF IsDict(x) THEN UNION { SchemaNodes(x.v[i].val) : i \in 1..Len(x.v) }
              ELSE IF IsList(x) THEN UNION { SchemaNodes(x.v[i]) : i \in 1..Len(x.v) }
              ELSE {})

\* the values beneath a dict that is no reference node, or a list, one for
\* each nested call of resolve_ref, in the order of the calls
NestedCalls(x) ==
    IF IsDict(x) /\ ~HasKey(x, "$ref") THEN [i \in 1..Len(x.v) |-> x.v[i].val]
    ELSE IF IsList(x) THEN x.v
    ELSE <<>>

\* the values a dict or list that resolve_ref returned holds, in order
NestedResults(y) == IF IsDict(y) THEN [i \in 1..Len(y.v) |-> y.v[i].val] ELSE y.v

\* get_exepad_schema has called resolve_ref on a definition of the document
ResolveRefCalled == visited_types # {} /\ visited_types \cap DefinedTypes # {}

\* C29: once get_exepad_schema is through: a call of resolve_ref that
\* returns leaves resolving as it was at its entry, whatever value of the
\* document and whatever set it was called with; and what a nested call gives for a value of a dict or a list is
\* what resolve_ref gives for that value with the set of the enclosing call,
\* whichever values were resolved before it
C29_ResolvingRestored ==
    spc = "done" /\ ResolveRefCalled =>
        \A t \in DefinedTypes, rs \in SUBSET DefinedTypes :
            \A x \in SchemaNodes(GetItem(FullDefinitions, t)) :
                ResolveRef(x, FullDefinitions, rs).exc = "" =>
                    /\ ResolveRef(x, FullDefinitions, rs).resolving = rs
                    /\ \A i \in 1..Len(NestedCalls(x)) :
                          NestedResults(ResolveRef(x, FullDefinitions, rs).val)[i]
                             = ResolveRef(NestedCalls(x)[i], FullDefinitions, rs).val

\* C29 witness: the definition of A holds two references side by side, the
\* first of them expanded through a second definition, and the call stored
\* the resolved A
C29_Witness ==
    /\ spc = "done"
    /\ ResolveRefCalled
    /\ HasKey(FullDefinitions, "A")
    /\ GetItem(FullDefinitions, "A") \in TwoRefShapes
    /\ \E i \in 1..Len(schema_dict) : schema_dict[i].key = "A" /\ RefNodes(schema_dict[i].val) = {}


\* resolve_ref of the definition of schema_type with schema_type counted
\* as being resolved
ResolveWithin(schema_type) ==
    ResolveRef(GetItem(FullDefinitions, schema_type), FullDefinitions, {schema_type})

\* C30: the type resolved at the top counts as being resolved: the schema
\* stored for T is what resolve_ref gives for T's definition when T is in
\* resolving, so a reference back to T stays a marker and no second copy of
\* T's definition lies inside the result
C30_TopTypeCountsAsResolving ==
    \A i \in 1..Len(schema_dict) :
        /\ ~CollectFails(ResolveWithin(schema_dict[i].key))
        /\ schema_dict[i].val
              = SchemaWithType(schema_dict[i].key, ResolveWithin(schema_dict[i].key).val)

====
